---- MODULE Spec2Model ----
(***************************************************************************)
(* libfault: the crash handler of cbits/libfault/libfault.c.               *)
(*                                                                         *)
(* Three processes are modelled: the faulting process P that runs          *)
(* libfault_abort_handler, the intermediate child C it forks, and the      *)
(* grandchild G that runs libfault_dump_diagnostics and resumes P with     *)
(* SIGCONT.  G runs its subordinates (date, uname, ulimit, the dumper      *)
(* children of libfault_run_subprocess, cat, lsof, ls) one at a time; the  *)
(* one that currently exists is the record "sub".                          *)
(***************************************************************************)
EXTENDS Integers, Sequences, FiniteSets, TLC

(***************************************************************************)
(* Signals and process identifiers                                         *)
(***************************************************************************)
\* The signals libfault_install_abort registers the root handler for.
HandledSignals == {"SIGABRT", "SIGSEGV", "SIGBUS", "SIGFPE", "SIGILL"}

NoSignal == "none"
NoPid == "none"

\* A pointer is NULL or points to a text or a named object.
NULL == <<>>
Ptr(text) == <<text>>

\* Wait statuses as waitpid reports them: exit(0), exit(1), killed by SIGKILL.
ExitOk == 0
ExitOne == 256
KilledStatus == 9

VARIABLES
  \* --- statics of the faulting process ---------------------------------
  libfault_abort_handler_called,   \* invocation counter of P
  libfault_beep_on_abort,
  libfault_stop_on_abort,
  libfault_custom_diagnostics_dumper, \* NULL or the installed callback
  libfault_custom_diagnostics_dumper_data,
  libfault_main_ctx,               \* what libfault_init and the setters write
  libfault_app_name,
  libfault_app_version,
  libfault_bugreport_url,
  libfault_log_base,
  altstack,                        \* TRUE once sigaltstack installed a stack
  assert_filename_set,             \* libfault_last_assert_info.filename != NULL
  emergencyPipe1,
  emergencyPipe2,
  sigact,        \* [proc -> [signal -> "handler" | "default"]]
  sigmask,       \* [proc -> set of blocked signals]
  \* --- the faulting process P -------------------------------------------
  ppc,           \* position of P
  pstat,         \* "running" | "stopped" | "dead"
  pexit,         \* how P ended: <<"none">>, <<"signal", s>>, <<"exit", n>>
  signo,         \* the signo parameter of the innermost handler frame
  state_pid,     \* state.pid of the innermost handler frame
  nentries,      \* how often libfault_abort_handler was entered in P
  crashLogFile,  \* "" or "path": crashLogFile of the first frame
  stderrToTee,   \* TRUE once stderr was dup2'ed onto the tee pipe
  plog,          \* the steps of the normal sequence P performed, in order
  nlog,          \* what the later entries of the handler did, in order
  noticeSigno,   \* the signal named in the latest "Abort handler crashed" line
  \* --- the intermediate child C and the grandchild G --------------------
  cpc,
  gpc,           \* [unit |-> ..., step |-> ...]
  sub,           \* the current subordinate of G
  secLog,        \* the sections dump_diagnostics started, in order
  lastFailure,   \* the latest failure dump_diagnostics met
  contSentTo,    \* the pids G sent SIGCONT to
  invoked,       \* the calls of the installed custom dumper, in order
  \* --- the calls of the handler and of single functions ------------------
  pcalls,        \* the system primitives P called inside the handler
  call,          \* the function applied last, with its arguments
  result         \* what that function returned

vars == <<libfault_abort_handler_called, libfault_beep_on_abort,
          libfault_stop_on_abort, libfault_custom_diagnostics_dumper,
          libfault_custom_diagnostics_dumper_data, libfault_main_ctx,
          libfault_app_name, libfault_app_version, libfault_bugreport_url,
          libfault_log_base, altstack,
          assert_filename_set, emergencyPipe1, emergencyPipe2, sigact, sigmask,
          ppc, pstat, pexit, signo, state_pid, nentries, crashLogFile,
          stderrToTee, plog, nlog, noticeSigno, cpc, gpc, sub, secLog, lastFailure,
          contSentTo, invoked, pcalls, call, result>>

installedVars == <<libfault_app_name, libfault_app_version,
                   libfault_bugreport_url, libfault_log_base,
                   libfault_custom_diagnostics_dumper,
                   libfault_custom_diagnostics_dumper_data,
                   libfault_beep_on_abort, libfault_stop_on_abort>>
configVars == <<installedVars, libfault_main_ctx, altstack,
                assert_filename_set>>
frameVars == <<libfault_abort_handler_called, sigact, sigmask, signo,
               state_pid, nentries>>
logVars == <<emergencyPipe1, emergencyPipe2, crashLogFile, stderrToTee, plog>>
noticeVars == <<nlog, noticeSigno>>
gVars == <<gpc, sub, secLog, lastFailure, contSentTo, invoked>>
pureVars == <<call, result>>

Procs == {"P", "C", "G"}

NoSub == [state |-> "none", holdsPipe |-> FALSE, status |-> 0]
NoUnit == [unit |-> "none", step |-> "none"]
NoFailure == [unit |-> "none", kind |-> "none"]
NoCall == [op |-> "none"]

AllDefault == [s \in HandledSignals |-> "default"]

\* The flags without the reset of the disposition on delivery.
HandlerFlags_NoResethand == {"SA_SIGINFO", "SA_ONSTACK"}

\* The sa_flags libfault_install_abort passes to sigaction.
HandlerFlags == {"SA_RESETHAND", "SA_SIGINFO", "SA_ONSTACK"}

\* libfault_install_abort: the root handler for the five signals.
InstalledHandlers == [s \in HandledSignals |-> "handler"]

\* Every process has a pid of its own.
getpid(proc) == <<"pid", proc>>

(***************************************************************************)
(* The state after libfault_install_handlers, before any crash.            *)
(***************************************************************************)
\* libfault_init, lines 2005-2014: every field the model keeps is NULL.
ZeroCtx == [diagnostics |-> NULL, diagnostics_data |-> NULL,
            app_name |-> NULL, app_version |-> NULL, log_name |-> NULL,
            bugreport_url |-> NULL]

DefaultLogBase == "/tmp/exe-crash.libfault."

\* No process has crashed and no function was applied.
InitProcesses ==
  /\ libfault_abort_handler_called = 0
  /\ emergencyPipe1 = <<-1, -1>>
  /\ emergencyPipe2 = <<-1, -1>>
  /\ sigmask = [p \in Procs |-> {}]
  /\ ppc = "app"
  /\ pstat = "running"
  /\ pexit = <<"none">>
  /\ signo = NoSignal
  /\ state_pid = NoPid
  /\ nentries = 0
  /\ crashLogFile = ""
  /\ stderrToTee = FALSE
  /\ plog = <<>>
  /\ nlog = <<>>
  /\ noticeSigno = NoSignal
  /\ cpc = "none"
  /\ gpc = NoUnit
  /\ sub = NoSub
  /\ secLog = <<>>
  /\ lastFailure = NoFailure
  /\ contSentTo = {}
  /\ invoked = <<>>
  /\ pcalls = {}
  /\ call = NoCall
  /\ result = NoCall

InitStatics ==
  /\ InitProcesses
  /\ libfault_main_ctx = ZeroCtx
  /\ libfault_app_name = NULL
  /\ libfault_app_version = NULL
  /\ libfault_bugreport_url = NULL
  /\ libfault_log_base = Ptr(DefaultLogBase)
  /\ altstack = TRUE
  /\ sigact = [p \in Procs |-> IF p = "P" THEN InstalledHandlers ELSE AllDefault]

Init ==
  /\ InitStatics
  /\ libfault_beep_on_abort \in BOOLEAN
  /\ libfault_stop_on_abort \in BOOLEAN
  /\ libfault_custom_diagnostics_dumper = NULL
  /\ libfault_custom_diagnostics_dumper_data = NULL
  /\ assert_filename_set = FALSE

(***************************************************************************)
(* libfault_abort_handler in the faulting process P                        *)
(***************************************************************************)
\* The normal sequence with the header written before the log file exists.
HandlerSequence_HeaderFirst ==
  <<"close_emergency_pipes", "header", "create_crashlog", "tee", "optional",
    "beep", "stop_on_abort", "fork_diag", "stop_self", "reraise">>

\* The steps of the normal sequence in the order of lines 1766-1953.
HandlerSequence ==
  <<"close_emergency_pipes", "create_crashlog", "tee", "header", "optional",
    "beep", "stop_on_abort", "fork_diag", "stop_self", "reraise">>

\* The step that follows step pc in the handler's text.
After(pc) ==
  LET i == CHOOSE k \in 1..Len(HandlerSequence): HandlerSequence[k] = pc
  IN HandlerSequence[i + 1]

\* P is inside libfault_abort_handler.
InHandler == ppc \notin {"app", "dead"}

\* An entry that tests the counter for > 2: the second entry runs the normal
\* sequence again.
HandlerBranch_SecondRunsSequence(n) ==
  IF n > 2 THEN "crashed_again" ELSE "normal"

\* An entry that never takes the _exit(1) branch.
HandlerBranch_NeverExits(n) ==
  IF n > 1 THEN "crashed_once" ELSE "normal"

\* Lines 1730-1764: which branch an entry takes, by the counter after the
\* increment.
HandlerBranch(n) ==
  IF n > 1
    THEN IF n = 2 THEN "crashed_once" ELSE "crashed_again"
    ELSE "normal"

\* The kernel invokes the handler for sig (SA_RESETHAND resets the disposition,
\* and without SA_NODEFER sig is blocked while the handler runs), and the
\* handler runs lines 1720-1730.
EnterHandler(sig, pre) ==
  /\ pcalls' = pcalls \cup pre \cup {"getpid", "time"}
  /\ sigact' = [sigact EXCEPT !["P"][sig] =
                  IF "SA_RESETHAND" \in HandlerFlags THEN "default" ELSE @]
  /\ sigmask' = [sigmask EXCEPT !["P"] =
                  IF "SA_NODEFER" \in HandlerFlags THEN @ ELSE @ \cup {sig}]
  /\ libfault_abort_handler_called' = libfault_abort_handler_called + 1
  /\ nentries' = nentries + 1
  /\ signo' = sig
  /\ state_pid' = getpid("P")
  /\ ppc' = LET b == HandlerBranch(libfault_abort_handler_called')
            IN IF b = "normal" THEN HandlerSequence[1] ELSE b
  /\ UNCHANGED <<pstat, pexit>>

\* The default disposition of a fatal signal: the process is terminated.
DieBySignal(sig, pre) ==
  /\ pcalls' = pcalls \cup pre
  /\ pstat' = "dead"
  /\ ppc' = "dead"
  /\ pexit' = <<"signal", sig>>
  /\ UNCHANGED frameVars

\* The handler calls the primitives of set S in this step.
Calls(S) == pcalls' = pcalls \cup S

\* A signal is generated for P and acted upon: the handler is entered if one
\* is installed, else the default disposition ends the process.  (A raise() of
\* the signal being handled is held back by the mask until the handler frame
\* returns; the frame returns right after the raise, lines 1763 and 1954.)
Raise(sig, pre) ==
  IF sigact["P"][sig] = "handler" THEN EnterHandler(sig, pre)
  ELSE DieBySignal(sig, pre)

\* A fatal signal is delivered to P: the first crash of the application, or a
\* fault (or a signal sent by another process) while the handler runs.
Fault(sig) ==
  /\ pstat = "running"
  /\ ppc # "dead"
  /\ Raise(sig, {})
  /\ UNCHANGED <<configVars, pureVars, logVars, noticeVars, cpc, gVars>>

\* Lines 1731-1749: the handler crashed once.
CrashedOnceNotice ==
  /\ pstat = "running"
  /\ ppc = "crashed_once"
  /\ nlog' = Append(nlog, "notice:crashed")
  /\ Calls({"getpid", "write"})
  /\ noticeSigno' = signo
  /\ ppc' = "crashed_raise"
  /\ UNCHANGED <<configVars, pureVars, frameVars, logVars, pstat, pexit, cpc, gVars>>

\* Line 1748: raise(signo).
CrashedOnceRaise ==
  /\ pstat = "running"
  /\ ppc = "crashed_raise"
  /\ nlog' = Append(nlog, "raise")
  /\ Raise(signo, {"raise"})
  /\ UNCHANGED <<configVars, pureVars, logVars, noticeSigno, cpc, gVars>>

\* Lines 1750-1762: the handler crashed again.
CrashedAgainNotice ==
  /\ pstat = "running"
  /\ ppc = "crashed_again"
  /\ nlog' = Append(nlog, "notice:crashed_again")
  /\ Calls({"getpid", "write"})
  /\ noticeSigno' = signo
  /\ ppc' = "crashed_exit"
  /\ UNCHANGED <<configVars, pureVars, frameVars, logVars, pstat, pexit, cpc, gVars>>

CrashedAgainExit ==
  /\ pstat = "running"
  /\ ppc = "crashed_exit"
  /\ pstat' = "dead"
  /\ ppc' = "dead"
  /\ pexit' = <<"exit", 1>>
  /\ nlog' = Append(nlog, "_exit")
  /\ Calls({"_exit"})
  /\ UNCHANGED <<configVars, pureVars, frameVars, logVars, noticeSigno, cpc, gVars>>

\* One step of the normal sequence: from pc "from" to pc "to", logging "ev".
PStep(from, to, ev) ==
  /\ pstat = "running"
  /\ ppc = from
  /\ ppc' = to
  /\ plog' = IF ev = "" THEN plog ELSE Append(plog, ev)

\* A close sequence that leaves the slots as they are.
EmergencyPipeClose_NoReset(p1, p2) ==
  LET slots == <<p1[1], p1[2], p2[1], p2[2]>>
      open(x) == x # -1
  IN [closed |-> SelectSeq(slots, open),
      pipe1 |-> p1,
      pipe2 |-> p2]

\* Lines 1766-1779 as a function of the two pairs: the descriptors close() is
\* called on, in order, and the pairs afterwards.
EmergencyPipeClose(p1, p2) ==
  LET slots == <<p1[1], p1[2], p2[1], p2[2]>>
      open(x) == x # -1
  IN [closed |-> SelectSeq(slots, open),
      pipe1 |-> <<-1, -1>>,
      pipe2 |-> <<-1, -1>>]

\* Lines 1766-1779.
CloseEmergencyPipes ==
  /\ PStep("close_emergency_pipes", After("close_emergency_pipes"),
           "close_emergency_pipes")
  /\ LET r == EmergencyPipeClose(emergencyPipe1, emergencyPipe2)
     IN /\ emergencyPipe1' = r.pipe1
        /\ emergencyPipe2' = r.pipe2
        /\ Calls(IF r.closed # <<>> THEN {"close"} ELSE {})
  /\ UNCHANGED <<configVars, pureVars, frameVars, crashLogFile, stderrToTee, pstat,
                 pexit, noticeVars, cpc, gVars>>

\* Lines 1610-1627 called from line 1784: open() succeeds or fails.
libfault_create_crashlog_file ==
  \E ok \in BOOLEAN:
    /\ PStep("create_crashlog",
             IF ok THEN After("create_crashlog") ELSE After(After("create_crashlog")),
             "create_crashlog")
    /\ crashLogFile' = IF ok THEN "path" ELSE ""
    /\ Calls(IF ok THEN {"open", "close"} ELSE {"open"})
    /\ UNCHANGED <<configVars, pureVars, frameVars, emergencyPipe1, emergencyPipe2,
                   stderrToTee, pstat, pexit, noticeVars, cpc, gVars>>

\* A parent that executes tee itself.
TeeParentCalls_ExecInParent(r) ==
  CASE r = "pipe_failed" -> {"pipe"}
    [] r = "fork_failed" -> {"pipe", "fork", "write"}
    [] r = "ok" -> {"pipe", "fork", "close", "dup2", "execlp"}

\* A parent that waits for the tee child.
TeeParentCalls_WaitsForTee(r) ==
  CASE r = "pipe_failed" -> {"pipe"}
    [] r = "fork_failed" -> {"pipe", "fork", "write"}
    [] r = "ok" -> {"pipe", "fork", "close", "dup2", "waitpid"}

\* The primitives libfault_fork_and_redir_to_tee calls in P, by its outcome.
TeeParentCalls(r) ==
  CASE r = "pipe_failed" -> {"pipe"}
    [] r = "fork_failed" -> {"pipe", "fork", "write"}
    [] r = "ok" -> {"pipe", "fork", "close", "dup2"}

\* The primitives the tee child calls, lines 1642-1653.
TeeChildCalls == {"close", "dup2", "execlp", "write", "_exit"}

\* A tee setup that leaves the filename alone when the fork fails.
TeeFilename_KeptOnForkFailure(r, filename) ==
  IF r = "pipe_failed" THEN "" ELSE filename

\* The caller's filename after libfault_fork_and_redir_to_tee: lines 1637 and
\* 1656 clear it.
TeeFilename(r, filename) ==
  IF r = "ok" THEN filename ELSE ""

\* What the log of steps keeps of libfault_fork_and_redir_to_tee.
TeeEvent(r) ==
  CASE r = "pipe_failed" -> "tee:pipe_failed"
    [] r = "fork_failed" -> "tee:fork_failed"
    [] r = "ok" -> "tee:ok"

\* Lines 1629-1663 called from line 1785.
libfault_fork_and_redir_to_tee ==
  \E r \in {"pipe_failed", "fork_failed", "ok"}:
    /\ PStep("tee", After("tee"), TeeEvent(r))
    /\ crashLogFile' = TeeFilename(r, crashLogFile)
    /\ stderrToTee' = (r = "ok")
    /\ Calls(TeeParentCalls(r))
    /\ UNCHANGED <<configVars, pureVars, frameVars, emergencyPipe1, emergencyPipe2,
                   pstat, pexit, noticeVars, cpc, gVars>>

\* Lines 1788-1804.
WriteHeader ==
  /\ PStep("header", After("header"), "header")
  /\ Calls({"write"})
  /\ UNCHANGED <<configVars, pureVars, frameVars, emergencyPipe1, emergencyPipe2,
                 crashLogFile, stderrToTee, pstat, pexit, noticeVars, cpc, gVars>>

\* Lines 1806-1844.
WriteOptionalLines ==
  /\ PStep("optional", After("optional"),
           IF crashLogFile # "" THEN "optional:crashlog" ELSE "optional:stderr_only")
  /\ Calls({"write"})
  /\ UNCHANGED <<configVars, pureVars, frameVars, emergencyPipe1, emergencyPipe2,
                 crashLogFile, stderrToTee, pstat, pexit, noticeVars, cpc, gVars>>

\* Lines 1846-1877: the fork of the beep child succeeds or fails.
Beep ==
  /\ \/ /\ libfault_beep_on_abort
        /\ \E ok \in BOOLEAN: PStep("beep", After("beep"), "beep")
        /\ Calls({"write", "fork"})
     \/ /\ ~libfault_beep_on_abort
        /\ PStep("beep", After("beep"), "")
        /\ Calls({})
  /\ UNCHANGED <<configVars, pureVars, frameVars, emergencyPipe1, emergencyPipe2,
                 crashLogFile, stderrToTee, pstat, pexit, noticeVars, cpc, gVars>>

\* Lines 1879-1887.
StopOnAbort ==
  /\ pstat = "running"
  /\ ppc = "stop_on_abort"
  /\ ppc' = After("stop_on_abort")
  /\ IF libfault_stop_on_abort
       THEN /\ plog' = Append(plog, "stop_on_abort")
            /\ pstat' = "stopped"
            /\ Calls({"write", "raise"})
       ELSE UNCHANGED <<plog, pstat, pcalls>>
  /\ UNCHANGED <<configVars, pureVars, frameVars, emergencyPipe1, emergencyPipe2,
                 crashLogFile, stderrToTee, pexit, noticeVars, cpc, gVars>>

\* Lines 1893, 1937-1950: the first fork.  The child starts at line 1894 with
\* a copy of P's dispositions and mask.
ForkDiag ==
  \E ok \in BOOLEAN:
    /\ PStep("fork_diag",
             IF ok THEN After("fork_diag") ELSE After(After("fork_diag")),
             "fork_diag")
    /\ cpc' = IF ok THEN "select" ELSE cpc
    /\ Calls(IF ok THEN {"fork"} ELSE {"fork", "write"})
    /\ sigact' = IF ok THEN [sigact EXCEPT !["C"] = sigact["P"]] ELSE sigact
    /\ sigmask' = IF ok THEN [sigmask EXCEPT !["C"] = sigmask["P"]] ELSE sigmask
    /\ UNCHANGED <<configVars, pureVars, libfault_abort_handler_called, signo, state_pid,
                   nentries, emergencyPipe1, emergencyPipe2, crashLogFile,
                   stderrToTee, pstat, pexit, noticeVars, gVars>>

\* Line 1948: raise(SIGSTOP).
StopSelf ==
  /\ PStep("stop_self", After("stop_self"), "stop_self")
  /\ pstat' = "stopped"
  /\ Calls({"raise"})
  /\ UNCHANGED <<configVars, pureVars, frameVars, emergencyPipe1, emergencyPipe2,
                 crashLogFile, stderrToTee, pexit, noticeVars, cpc, gVars>>

\* Line 1953: raise(signo).
Reraise ==
  /\ pstat = "running"
  /\ ppc = "reraise"
  /\ plog' = Append(plog, "reraise")
  /\ Raise(signo, {"raise"})
  /\ UNCHANGED <<configVars, pureVars, emergencyPipe1, emergencyPipe2, crashLogFile,
                 stderrToTee, noticeVars, cpc, gVars>>

\* SIGCONT reaches the stopped process from outside the program (the operator
\* of LIBFAULT_STOP_ON_ABORT, or any other process).
ExternalCont ==
  /\ pstat = "stopped"
  /\ pstat' = "running"
  /\ UNCHANGED <<pcalls, configVars, pureVars, frameVars, logVars, ppc, pexit, noticeVars, cpc, gVars>>

HandlerStep ==
  \/ CloseEmergencyPipes
  \/ libfault_create_crashlog_file
  \/ libfault_fork_and_redir_to_tee
  \/ WriteHeader
  \/ WriteOptionalLines
  \/ Beep
  \/ StopOnAbort
  \/ ForkDiag
  \/ StopSelf
  \/ Reraise
  \/ CrashedOnceNotice
  \/ CrashedOnceRaise
  \/ CrashedAgainNotice
  \/ CrashedAgainExit

(***************************************************************************)
(* The intermediate child C: lines 1894-1936                               *)
(***************************************************************************)
\* Lines 1898-1901: select() with a 100 ms timeout.
ChildSelect ==
  /\ cpc = "select"
  /\ cpc' = "reset"
  /\ UNCHANGED <<configVars, pureVars, frameVars, logVars, pcalls, ppc, pstat, pexit, noticeVars,
                 gVars>>

\* libfault_reset_signal_handlers_and_mask, lines 1668-1715, for the signals
\* the model tracks.
libfault_reset_signal_handlers_and_mask(proc) ==
  /\ sigact' = [sigact EXCEPT ![proc] = AllDefault]
  /\ sigmask' = [sigmask EXCEPT ![proc] = {}]

ChildReset ==
  /\ cpc = "reset"
  /\ cpc' = "fork"
  /\ libfault_reset_signal_handlers_and_mask("C")
  /\ UNCHANGED <<configVars, pureVars, libfault_abort_handler_called, signo, state_pid,
                 nentries, logVars, pcalls, ppc, pstat, pexit, noticeVars, gVars>>

\* The units of libfault_dump_diagnostics, in the order of lines 1483-1586.
\* "lsof" and "ls" are the two attempts of libfault_dump_fds.
Units == <<"date", "uname", "ulimit", "assert", "registers", "stack",
           "backtrace", "custom", "maps", "lsof", "ls">>

\* Children forked and waited for with a plain waitpid.
ForkWaitUnits == {"date", "uname", "ulimit", "maps", "ls"}
\* Callbacks run through libfault_run_subprocess.
RunnerUnits == {"registers", "stack", "backtrace", "custom", "lsof"}

\* The time limits of the libfault_run_subprocess calls, in milliseconds.
TimeLimit(u) ==
  CASE u \in {"registers", "stack", "custom"} -> 2000
    [] u \in {"backtrace", "lsof"} -> 4000

StartStep(u) ==
  CASE u \in ForkWaitUnits -> "fork"
    [] u \in RunnerUnits -> "spawn"
    [] u = "assert" -> "inline"
    [] u = "return" -> "kill_cont"

At(u) == [unit |-> u, step |-> StartStep(u)]

\* A dump that gives up at the first unit that fails.
AfterUnit_AbortOnFailure(u, ret) ==
  IF ret # 0 /\ u # "assert"
    THEN {At("return")}
    ELSE CASE u = "date" -> {At("uname")}
           [] u = "uname" -> {At("ulimit")}
           [] u = "ulimit" -> {At("assert")}
           [] u = "assert" -> {At("registers")}
           [] u = "registers" -> {At("stack")}
           [] u = "stack" -> {At("backtrace")}
           [] u = "backtrace" ->
                {IF libfault_custom_diagnostics_dumper # NULL THEN At("custom")
                 ELSE At("maps")}
           [] u = "custom" -> {At("maps")}
           [] u = "maps" -> {At("lsof")}
           [] u = "lsof" -> {At("return")}
           [] u = "ls" -> {At("return")}

\* Where dump_diagnostics continues after unit u ended with result ret (a wait
\* status, or -1): the next statement of lines 1483-1586, and inside
\* libfault_dump_fds lines 1312-1340.
AfterUnit(u, ret) ==
  CASE u = "date" -> {At("uname")}
    [] u = "uname" -> {At("ulimit")}
    [] u = "ulimit" -> {At("assert")}
    [] u = "assert" -> {At("registers")}
    [] u = "registers" -> {At("stack")}
    [] u = "stack" -> {At("backtrace")}
    [] u = "backtrace" ->
         {IF libfault_custom_diagnostics_dumper # NULL THEN At("custom") ELSE At("maps")}
    [] u = "custom" -> {At("maps")}
    [] u = "maps" -> {At("lsof")}
    [] u = "lsof" -> IF ret # 0 THEN {At("ls"), At("return")} ELSE {At("return")}
    [] u = "ls" -> {At("return")}

\* The section of the report a unit belongs to.
SectionOf(u) == IF u \in {"lsof", "ls"} THEN "fds" ELSE u

\* A unit's first statement starts its section, unless the section is open.
StartSection(u) ==
  secLog' = IF u = "ls" THEN secLog ELSE Append(secLog, SectionOf(u))

\* Lines 1905-1935: the second fork.  The grandchild starts dump_diagnostics
\* with a copy of C's dispositions and mask.
ChildFork ==
  \E ok \in BOOLEAN:
    /\ cpc = "fork"
    /\ cpc' = IF ok THEN "forked" ELSE "exited"
    /\ gpc' = IF ok THEN At("date") ELSE gpc
    /\ sigact' = IF ok THEN [sigact EXCEPT !["G"] = sigact["C"]] ELSE sigact
    /\ sigmask' = IF ok THEN [sigmask EXCEPT !["G"] = sigmask["C"]] ELSE sigmask
    /\ UNCHANGED <<configVars, invoked, pureVars, libfault_abort_handler_called, signo, state_pid,
                   nentries, logVars, pcalls, ppc, pstat, pexit, noticeVars, sub,
                   secLog, lastFailure, contSentTo>>

\* Line 1934: what the intermediate child waits for before it exits.
ChildExitGuard == TRUE

ChildExit ==
  /\ cpc = "forked"
  /\ ChildExitGuard
  /\ cpc' = "exited"
  /\ UNCHANGED <<configVars, pureVars, frameVars, logVars, pcalls, ppc, pstat, pexit, noticeVars,
                 gVars>>

(***************************************************************************)
(* The grandchild G: libfault_dump_diagnostics, then lines 1917-1918       *)
(***************************************************************************)
Running(holds) == [state |-> "running", holdsPipe |-> holds, status |-> 0]

\* Lines 1484-1526, 1208-1246, 1277-1293: fork a child that execs a program.
ForkChild ==
  \E ok \in BOOLEAN:
    /\ gpc.unit \in ForkWaitUnits
    /\ gpc.step = "fork"
    /\ StartSection(gpc.unit)
    /\ IF ok
         THEN /\ sub' = Running(FALSE)
              /\ gpc' = [gpc EXCEPT !.step = "wait"]
              /\ UNCHANGED lastFailure
         ELSE /\ gpc' \in AfterUnit(gpc.unit, -1)
              /\ lastFailure' = [unit |-> gpc.unit, kind |-> "fork"]
              /\ UNCHANGED sub
    /\ UNCHANGED <<configVars, invoked, pureVars, frameVars, logVars, pcalls, ppc, pstat, pexit,
                   noticeVars, cpc, contSentTo>>

\* waitpid(pid, &status, 0) of these children: it returns once the child is a
\* zombie.
WaitChild ==
  /\ gpc.unit \in ForkWaitUnits
  /\ gpc.step = "wait"
  /\ sub.state = "zombie"
  /\ sub' = NoSub
  /\ lastFailure' = IF sub.status # 0
                    THEN [unit |-> gpc.unit, kind |-> "nonzero"]
                    ELSE lastFailure
  /\ gpc' \in AfterUnit(gpc.unit, sub.status)
  /\ UNCHANGED <<configVars, invoked, pureVars, frameVars, logVars, pcalls, ppc, pstat, pexit,
                 noticeVars, cpc, secLog, contSentTo>>

\* Lines 1530-1548: the assertion record, written inline.
AssertRecord ==
  /\ gpc = At("assert")
  /\ IF assert_filename_set THEN StartSection("assert") ELSE UNCHANGED secLog
  /\ gpc' \in AfterUnit("assert", 0)
  /\ UNCHANGED <<configVars, invoked, pureVars, frameVars, logVars, pcalls, ppc, pstat, pexit,
                 noticeVars, cpc, sub, lastFailure, contSentTo>>

\* The callback each libfault_run_subprocess call of dump_diagnostics and
\* dump_fds passes, lines 1550-1578 and 1310.
Callback(u) ==
  CASE u = "registers" -> "libfault_dump_registers"
    [] u = "stack" -> "libfault_dump_stack"
    [] u = "backtrace" -> "libfault_dump_backtrace"
    [] u = "custom" -> "libfault_run_custom_diagnostics"
    [] u = "lsof" -> "libfault_dump_fds_with_lsof"

\* A custom dumper that is handed the handler state instead of the data.
CustomCall_PassesState == <<libfault_custom_diagnostics_dumper[1], <<"state">>>>

\* libfault_run_custom_diagnostics, line 1468: the installed dumper, called
\* with the installed data.
CustomCall ==
  <<libfault_custom_diagnostics_dumper[1],
    libfault_custom_diagnostics_dumper_data>>

\* Line 877 in the child of libfault_run_subprocess: callback(state,
\* userData), in the subordinate, under the time limit of the call.  The
\* calls of the custom dumper are recorded.
Invocation(u) ==
  IF Callback(u) = "libfault_run_custom_diagnostics"
    THEN <<[proc |-> "sub", callback |-> Callback(u),
            timeLimit |-> TimeLimit(u), calls |-> CustomCall]>>
    ELSE <<>>

\* libfault_run_subprocess, lines 863-892: pipe() and the fork.  The child
\* inherits the write end of the pipe and runs the callback.
RunSubprocessSpawn ==
  \E r \in {"pipe_failed", "fork_failed", "ok"}:
    /\ gpc.unit \in RunnerUnits
    /\ gpc.step = "spawn"
    /\ StartSection(gpc.unit)
    /\ IF r = "ok"
         THEN /\ sub' = Running(TRUE)
              /\ gpc' = [gpc EXCEPT !.step = "poll"]
              /\ invoked' = invoked \o Invocation(gpc.unit)
              /\ UNCHANGED lastFailure
         ELSE /\ gpc' \in AfterUnit(gpc.unit, -1)
              /\ lastFailure' = [unit |-> gpc.unit,
                                  kind |-> IF r = "pipe_failed" THEN "pipe"
                                           ELSE "fork"]
              /\ UNCHANGED <<sub, invoked>>
    /\ UNCHANGED <<configVars, pureVars, frameVars, logVars, pcalls, ppc, pstat, pexit,
                   noticeVars, cpc, contSentTo>>

\* Line 902: poll() returns > 0 once every write end of the pipe is closed.
RunSubprocessPollReady ==
  /\ gpc.unit \in RunnerUnits
  /\ gpc.step = "poll"
  /\ ~sub.holdsPipe
  /\ gpc' = [gpc EXCEPT !.step = "wait"]
  /\ UNCHANGED <<configVars, invoked, pureVars, frameVars, logVars, pcalls, ppc, pstat, pexit,
                 noticeVars, cpc, sub, secLog, lastFailure, contSentTo>>

\* A runner that reports the timeout but leaves the child alone.
RunSubprocessPollTimeout_NoKill ==
  /\ gpc.unit \in RunnerUnits
  /\ gpc.step = "poll"
  /\ sub.holdsPipe
  /\ lastFailure' = [unit |-> gpc.unit, kind |-> "timeout"]
  /\ gpc' = [gpc EXCEPT !.step = "wait"]
  /\ UNCHANGED <<configVars, invoked, pureVars, frameVars, logVars, pcalls, ppc, pstat, pexit,
                 noticeVars, cpc, sub, secLog, contSentTo>>

\* Lines 902-906: the time limit elapses while the child still holds the write
\* end; poll() returns 0 and the child is killed.
RunSubprocessPollTimeout ==
  /\ gpc.unit \in RunnerUnits
  /\ gpc.step = "poll"
  /\ sub.holdsPipe
  /\ sub' = [state |-> "zombie", holdsPipe |-> FALSE, status |-> KilledStatus]
  /\ lastFailure' = [unit |-> gpc.unit, kind |-> "timeout"]
  /\ gpc' = [gpc EXCEPT !.step = "wait"]
  /\ UNCHANGED <<configVars, invoked, pureVars, frameVars, logVars, pcalls, ppc, pstat, pexit,
                 noticeVars, cpc, secLog, contSentTo>>

\* Lines 907-913: waitpid(child, &status, 0), and the caller's use of the
\* result (only libfault_dump_fds reads it).
RunSubprocessWait ==
  /\ gpc.unit \in RunnerUnits
  /\ gpc.step = "wait"
  /\ sub.state = "zombie"
  /\ sub' = NoSub
  /\ lastFailure' = IF sub.status \notin {0, KilledStatus}
                    THEN [unit |-> gpc.unit, kind |-> "nonzero"]
                    ELSE lastFailure
  /\ gpc' \in AfterUnit(gpc.unit, sub.status)
  /\ UNCHANGED <<configVars, invoked, pureVars, frameVars, logVars, pcalls, ppc, pstat, pexit,
                 noticeVars, cpc, secLog, contSentTo>>

\* A grandchild that resumes its parent, the intermediate child.
ContTarget_IntermediateChild == getpid("C")

\* The pid the grandchild resumes: line 1917, kill(state.pid, SIGCONT).
ContTarget == state_pid

\* SIGCONT resumes a stopped process and is discarded by a running one.
KillCont ==
  /\ gpc = At("return")
  /\ gpc' = [unit |-> "return", step |-> "exit"]
  /\ contSentTo' = contSentTo \cup {ContTarget}
  /\ pstat' = IF ContTarget = getpid("P") /\ pstat = "stopped" THEN "running"
              ELSE pstat
  /\ UNCHANGED <<configVars, invoked, pureVars, frameVars, logVars, pcalls, ppc, pexit, noticeVars, cpc,
                 sub, secLog, lastFailure>>

\* Line 1918: _exit(0).
GrandchildExit ==
  /\ gpc = [unit |-> "return", step |-> "exit"]
  /\ gpc' = [unit |-> "return", step |-> "exited"]
  /\ UNCHANGED <<configVars, invoked, pureVars, frameVars, logVars, pcalls, ppc, pstat, pexit, noticeVars,
                 cpc, sub, secLog, lastFailure, contSentTo>>

(***************************************************************************)
(* The subordinate of G                                                    *)
(***************************************************************************)
\* The wait statuses a subordinate can end with by itself: the register and
\* stack dumpers end with _exit(1) (lines 969, 1191); a failed exec ends with
\* _exit(1); a program ends with its own exit code.
ExitStatuses(u) ==
  IF u \in {"registers", "stack"} THEN {ExitOne} ELSE {ExitOk, ExitOne}

\* libfault_dump_fds_with_lsof, line 1258: libfault_close_all_fds(2, true)
\* closes the write end of the runner's pipe before the exec.
SubClosePipe ==
  /\ gpc.unit = "lsof"
  /\ sub.state = "running"
  /\ sub.holdsPipe
  /\ sub' = [sub EXCEPT !.holdsPipe = FALSE]
  /\ UNCHANGED <<configVars, invoked, pureVars, frameVars, logVars, pcalls, ppc, pstat, pexit, noticeVars,
                 cpc, gpc, secLog, lastFailure, contSentTo>>

\* The subordinate's own code has run to the point where it may end or hang:
\* lsof only after the exec, that is after line 1258.
SubAtProgram == sub.state = "running" /\ (gpc.unit = "lsof" => ~sub.holdsPipe)

SubExit ==
  \E st \in ExitStatuses(gpc.unit):
    /\ SubAtProgram
    /\ sub' = [state |-> "zombie", holdsPipe |-> FALSE, status |-> st]
    /\ UNCHANGED <<configVars, invoked, pureVars, frameVars, logVars, pcalls, ppc, pstat, pexit,
                   noticeVars, cpc, gpc, secLog, lastFailure, contSentTo>>

\* The subordinate never ends by itself.
SubHang ==
  /\ SubAtProgram
  /\ sub' = [sub EXCEPT !.state = "hung"]
  /\ UNCHANGED <<configVars, invoked, pureVars, frameVars, logVars, pcalls, ppc, pstat, pexit, noticeVars,
                 cpc, gpc, secLog, lastFailure, contSentTo>>

ChildStep == ChildSelect \/ ChildReset \/ ChildFork \/ ChildExit

GrandchildStep ==
  \/ ForkChild
  \/ WaitChild
  \/ AssertRecord
  \/ RunSubprocessSpawn
  \/ RunSubprocessPollReady
  \/ RunSubprocessPollTimeout
  \/ RunSubprocessWait
  \/ KillCont
  \/ GrandchildExit

SubStep == SubClosePipe \/ SubExit \/ SubHang

(***************************************************************************)
(* The faulting process, with the signals and the SIGCONT it receives.     *)
(***************************************************************************)
Next ==
  \/ HandlerStep
  \/ \E sig \in HandledSignals: Fault(sig)
  \/ ExternalCont

Spec == Init /\ [][Next]_vars

(***************************************************************************)
(* The diagnostics processes: P from its first fork on (no further signal  *)
(* reaches it), C, G and G's subordinates.  The state is the one P is in   *)
(* at line 1893 after its first crash, with the log file not created and   *)
(* neither beep nor stop mode on.                                          *)
(***************************************************************************)
DiagInit ==
  /\ signo \in HandledSignals
  /\ libfault_abort_handler_called = 1
  /\ libfault_beep_on_abort = FALSE
  /\ libfault_stop_on_abort = FALSE
  /\ libfault_custom_diagnostics_dumper \in {NULL, Ptr("diagnostics")}
  /\ libfault_custom_diagnostics_dumper_data
       \in IF libfault_custom_diagnostics_dumper = NULL THEN {NULL}
           ELSE {NULL, Ptr("data")}
  /\ libfault_main_ctx = ZeroCtx
  /\ libfault_app_name = NULL
  /\ libfault_app_version = NULL
  /\ libfault_bugreport_url = NULL
  /\ libfault_log_base = Ptr(DefaultLogBase)
  /\ altstack = TRUE
  /\ assert_filename_set \in BOOLEAN
  /\ emergencyPipe1 = <<-1, -1>>
  /\ emergencyPipe2 = <<-1, -1>>
  /\ sigact = [p \in Procs |->
                 IF p = "P" THEN [InstalledHandlers EXCEPT ![signo] = "default"]
                 ELSE AllDefault]
  /\ sigmask = [p \in Procs |-> IF p = "P" THEN {signo} ELSE {}]
  /\ ppc = "fork_diag"
  /\ pstat = "running"
  /\ pexit = <<"none">>
  /\ state_pid = getpid("P")
  /\ nentries = 1
  /\ crashLogFile = ""
  /\ stderrToTee = FALSE
  /\ plog = <<"close_emergency_pipes", "create_crashlog", "header",
              "optional:stderr_only">>
  /\ nlog = <<>>
  /\ noticeSigno = NoSignal
  /\ cpc = "none"
  /\ gpc = NoUnit
  /\ sub = NoSub
  /\ secLog = <<>>
  /\ lastFailure = NoFailure
  /\ contSentTo = {}
  /\ invoked = <<>>
  /\ pcalls = {"getpid", "time", "open", "write"}
  /\ call = NoCall
  /\ result = NoCall

ParentStep == ForkDiag \/ StopSelf \/ Reraise

DiagNext == ParentStep \/ ChildStep \/ GrandchildStep \/ SubStep

DiagSpec == DiagInit /\ [][DiagNext]_vars

\* Every process that can take a step is eventually scheduled.
FairDiagSpec ==
  /\ DiagSpec
  /\ WF_vars(ParentStep)
  /\ WF_vars(ChildStep)
  /\ WF_vars(GrandchildStep)
  /\ WF_vars(SubStep)

(***************************************************************************)
(* The format primitives, lines 294-531.  An unsigned value of w bytes is  *)
(* the sequence of its w/2 digits to base 65536, least significant first;  *)
(* a buffer is a sequence of characters, and a text is a string.           *)
(***************************************************************************)
LimbBase == 65536

libfault_ascii_digits == <<"0", "1", "2", "3", "4", "5", "6", "7", "8", "9">>
libfault_ascii_chars ==
  <<"0", "1", "2", "3", "4", "5", "6", "7", "8", "9", "a", "b", "c", "d",
    "e", "f">>

RECURSIVE Power(_, _)
Power(b, e) == IF e = 0 THEN 1 ELSE b * Power(b, e - 1)

\* The value n >= 0 as an unsigned value of w bytes (n modulo 2^(8w)).
FromNat(n, w) ==
  [i \in 1..(w \div 2) |->
     IF i > 2 THEN 0 ELSE (n \div Power(LimbBase, i - 1)) % LimbBase]

\* The cast of the int n to an unsigned type of w bytes: two's complement.
CastInt(n, w) ==
  IF n >= 0 THEN FromNat(n, w)
  ELSE LET m == FromNat(-n - 1, w)
       IN [i \in 1..(w \div 2) |-> LimbBase - 1 - m[i]]

IsZero(v) == \A i \in 1..Len(v): v[i] = 0

\* v / d and v % d for 0 < d <= 16, by long division from the top digit.
RECURSIVE DivStep(_, _, _, _, _)
DivStep(v, d, i, rem, q) ==
  IF i = 0 THEN [q |-> q, r |-> rem]
  ELSE LET cur == rem * LimbBase + v[i]
       IN DivStep(v, d, i - 1, cur % d, [q EXCEPT ![i] = cur \div d])

DivMod(v, d) == DivStep(v, d, Len(v), 0, v)

\* The do-while loops of lines 322-326, 340-344, 364-368 and 388-392: the
\* digits of value to the given base, least significant first.
RECURSIVE DigitLoop(_, _, _)
DigitLoop(remainder, base, table) ==
  LET dm == DivMod(remainder, base)
      ch == table[dm.r + 1]
  IN IF IsZero(dm.q) THEN <<ch>>
     ELSE <<ch>> \o DigitLoop(dm.q, base, table)

\* The for loop of libfault_reverse, lines 309-313: swap p1 and p2 while
\* p2 > p1.
RECURSIVE ReverseLoop(_, _, _)
ReverseLoop(str, p1, p2) ==
  IF p2 > p1
    THEN ReverseLoop([str EXCEPT ![p1] = str[p2], ![p2] = str[p1]],
                     p1 + 1, p2 - 1)
    ELSE str

\* libfault_reverse(str, len), lines 302-314.  The buffers it is given start
\* with a digit, never with NUL.
libfault_reverse(str, len) == ReverseLoop(str, 1, len)

\* The text a buffer holds.
RECURSIVE Text(_)
Text(buf) == IF buf = <<>> THEN "" ELSE Head(buf) \o Text(Tail(buf))

\* libfault_append_ull, lines 316-330: what it appends, and by how much the
\* cursor advances.
libfault_append_ull_buf(value) ==
  LET digits == DigitLoop(value, 10, libfault_ascii_digits)
      size == Len(digits)
  IN [buf |-> libfault_reverse(digits, size), advance |-> size]

libfault_append_ull(value) == Text(libfault_append_ull_buf(value).buf)

\* A formatter that pads to one digit less.
RECURSIVE PadLoop_OneShort(_, _, _)
PadLoop_OneShort(buf, i, limit) ==
  IF i + 1 < limit THEN PadLoop_OneShort(Append(buf, "0"), i + 1, limit)
  ELSE buf

\* The zero padding of lines 347-350, 371-374 and 395-398: i runs from 0 while
\* i < sizeof * 2 - off (off never exceeds sizeof * 2).
RECURSIVE PadLoop(_, _, _)
PadLoop(buf, i, limit) ==
  IF i < limit THEN PadLoop(Append(buf, "0"), i + 1, limit) ELSE buf

\* libfault_append_hex_uint, _ull and _ul, lines 332-402, for a type of
\* sizeof bytes: what is appended, and by how much the cursor advances.
libfault_append_hex(value, sizeof) ==
  LET digits == DigitLoop(value, 16, libfault_ascii_chars)
      off == Len(digits)
      padded == PadLoop(digits, 0, sizeof * 2 - off)
      size == Len(padded)
  IN [buf |-> libfault_reverse(padded, size), advance |-> size]

\* sizeof(unsigned int) and sizeof(unsigned long long) of the supported
\* targets.
SizeofUInt == 4
SizeofULongLong == 8

libfault_append_hex_uint(value) == libfault_append_hex(value, SizeofUInt)
libfault_append_hex_ull(value) == libfault_append_hex(value, SizeofULongLong)
\* sizeof(unsigned long) is 4 or 8, by the target.
libfault_append_hex_ul(value, sizeofLong) == libfault_append_hex(value, sizeofLong)

\* A pointer formatter without the "0x".
libfault_append_ptr2str_NoPrefix(pointer, sizeofPtr) ==
  Text(libfault_append_hex(pointer, sizeofPtr).buf)

\* libfault_append_ptr2str, lines 404-429, on a target whose pointers have
\* sizeofPtr bytes.
libfault_append_ptr2str(pointer, sizeofPtr) ==
  IF sizeofPtr = SizeofUInt
    THEN "0x" \o Text(libfault_append_hex_uint(pointer).buf)
    ELSE IF sizeofPtr = SizeofULongLong
      THEN "0x" \o Text(libfault_append_hex_ull(pointer).buf)
      ELSE "(pointer size unsupported)"

\* The numbers of the handled signals and the si_code values of Linux, by
\* the names the source uses.
SigNum ==
  [SIGILL |-> 4, SIGABRT |-> 6, SIGBUS |-> 7, SIGFPE |-> 8, SIGSEGV |-> 11]

\* A formatter that does not know SIGILL.
libfault_append_signo_NoSigill(sig) ==
  LET name == CASE sig = SigNum.SIGABRT -> "SIGABRT"
                [] sig = SigNum.SIGSEGV -> "SIGSEGV"
                [] sig = SigNum.SIGBUS -> "SIGBUS"
                [] sig = SigNum.SIGFPE -> "SIGFPE"
                [] OTHER -> ""
  IN IF name = ""
       THEN libfault_append_ull(CastInt(sig, SizeofULongLong))
       ELSE name \o "(" \o libfault_append_ull(CastInt(sig, SizeofULongLong))
            \o ")"

\* libfault_append_signo, lines 431-447.
libfault_append_signo(sig) ==
  LET name == CASE sig = SigNum.SIGABRT -> "SIGABRT"
                [] sig = SigNum.SIGSEGV -> "SIGSEGV"
                [] sig = SigNum.SIGBUS -> "SIGBUS"
                [] sig = SigNum.SIGFPE -> "SIGFPE"
                [] sig = SigNum.SIGILL -> "SIGILL"
                [] OTHER -> ""
  IN IF name = ""
       THEN libfault_append_ull(CastInt(sig, SizeofULongLong))
       ELSE name \o "(" \o libfault_append_ull(CastInt(sig, SizeofULongLong))
            \o ")"

\* Lines 460-479: the si_code values named for every signal.
GeneralSiCode(code) ==
  CASE code = 0 -> "SI_USER"
    [] code = -1 -> "SI_QUEUE"
    [] code = -2 -> "SI_TIMER"
    [] code = 128 -> "SI_KERNEL"
    [] code = -4 -> "SI_ASYNCIO"
    [] code = -3 -> "SI_MESGQ"
    [] code = -5 -> "SI_SIGIO"
    [] code = -6 -> "SI_TKILL"
    [] OTHER -> ""

\* Lines 482-511: the si_code values named for SIGSEGV and SIGBUS.
SignalSiCode(si_signo, code) ==
  CASE si_signo = SigNum.SIGSEGV /\ code = 1 -> "SEGV_MAPERR"
    [] si_signo = SigNum.SIGSEGV /\ code = 2 -> "SEGV_ACCERR"
    [] si_signo = SigNum.SIGBUS /\ code = 1 -> "BUS_ADRALN"
    [] si_signo = SigNum.SIGBUS /\ code = 2 -> "BUS_ADRERR"
    [] si_signo = SigNum.SIGBUS /\ code = 3 -> "BUS_OBJERR"
    [] OTHER -> ""

\* A test for the sender that leaves out code 0.
SentByUser_Strict(code) == code < 0

\* Line 520: the test that decides whether the sender is reported.
SentByUser(code) == code <= 0

\* libfault_append_sigreason, lines 454-531.  si_pid is a pid_t, si_uid a
\* uid_t, si_addr a pointer of sizeofPtr bytes.
libfault_append_sigreason(info, sizeofPtr) ==
  LET general == GeneralSiCode(info.si_code)
      special == SignalSiCode(info.si_signo, info.si_code)
      reason == IF general # "" THEN general
                ELSE IF special # "" THEN special
                ELSE "#" \o libfault_append_ull(
                               CastInt(info.si_code, SizeofULongLong))
      sender == IF SentByUser(info.si_code)
                  THEN ", signal sent by PID "
                       \o libfault_append_ull(
                            CastInt(info.si_pid, SizeofULongLong))
                       \o " with UID "
                       \o libfault_append_ull(
                            FromNat(info.si_uid, SizeofULongLong))
                  ELSE ""
  IN reason \o sender \o ", si_addr="
     \o libfault_append_ptr2str(info.si_addr, sizeofPtr)

\* Lines 1788-1804: the header line of the first entry, as written to stderr.
HeaderLine(pid, t, sig, info, sizeofPtr) ==
  LET msg_prefix == "[ pid=" \o libfault_append_ull(CastInt(pid, SizeofULongLong))
  IN msg_prefix \o ", timestamp="
     \o libfault_append_ull(CastInt(t, SizeofULongLong))
     \o " ] Process aborted! signo=" \o libfault_append_signo(sig)
     \o ", reason=" \o libfault_append_sigreason(info, sizeofPtr) \o "\n"

\* A library that ignores libfault_set_log_name.
LogBase_IgnoresLogName(log_name) == "/tmp/exe-crash.libfault."

\* libfault_install_handlers, lines 2153-2158: libfault_log_base.
LogBase(log_name) ==
  IF log_name # NULL THEN log_name[1] ELSE "/tmp/exe-crash.libfault."

\* libfault_create_crashlog_file, lines 1613-1616: the filename it composes.
CrashLogPath(log_base, t) ==
  log_base \o libfault_append_ull(CastInt(t, SizeofULongLong))

\* A lookup that takes an empty value for a set one.
libfault_env_get_EmptyIsSet(val, def) == IF val # NULL THEN val ELSE def

\* libfault_env_get, lines 238-248; val is what getenv returned.
libfault_env_get(val, def) ==
  IF val # NULL /\ val[1] # "" THEN val ELSE def

\* libfault_env_enabled, lines 250-263.
libfault_env_enabled(getenv, def) ==
  LET val == libfault_env_get(getenv, NULL)
  IN IF val # NULL
       THEN val[1] \in {"yes", "YES", "y", "Y", "on", "ON", "true", "TRUE"}
       ELSE def

(***************************************************************************)
(* Single functions of the library, applied to arguments of their domain.  *)
(***************************************************************************)
progVars == <<libfault_abort_handler_called, configVars, emergencyPipe1, emergencyPipe2, sigact,
              sigmask, ppc, pstat, pexit, signo, state_pid, nentries,
              crashLogFile, stderrToTee, plog, nlog, noticeSigno, cpc, gpc,
              sub, secLog, lastFailure, contSentTo, invoked, pcalls>>

PureInit ==
  /\ InitStatics
  /\ libfault_beep_on_abort = FALSE
  /\ libfault_stop_on_abort = FALSE
  /\ libfault_custom_diagnostics_dumper = NULL
  /\ libfault_custom_diagnostics_dumper_data = NULL
  /\ assert_filename_set = FALSE

\* Function op is applied to args and returns res; each behaviour is one
\* application.
Apply(op, args, res) ==
  /\ call = NoCall
  /\ call' = [op |-> op, args |-> args]
  /\ result' = res
  /\ UNCHANGED progVars

\* The values a slot of an emergency pipe can hold: -1 or a descriptor.
SlotValues == {-1, 3, 4}

\* The close sequence of lines 1766-1779, run twice in a row.
CallEmergencyPipeClose ==
  \E a, b, c, d \in SlotValues:
    LET first == EmergencyPipeClose(<<a, b>>, <<c, d>>)
        second == EmergencyPipeClose(first.pipe1, first.pipe2)
    IN Apply("EmergencyPipeClose", <<a, b, c, d>>,
             [first |-> first, second |-> second])

\* Digits to base 65536 the arguments are built from.
LimbSamples == {0, 1, 10, 255, 43981, 65535}

\* The unsigned values of w bytes built from these digits.
Unsigned(w) == [1..(w \div 2) -> LimbSamples]

\* The three hex formatters; unsigned long has 4 or 8 bytes.
CallAppendHex ==
  \/ \E v \in Unsigned(SizeofUInt):
       Apply("libfault_append_hex_uint", [value |-> v, sizeof |-> SizeofUInt],
             libfault_append_hex_uint(v))
  \/ \E v \in Unsigned(SizeofULongLong):
       Apply("libfault_append_hex_ull",
             [value |-> v, sizeof |-> SizeofULongLong],
             libfault_append_hex_ull(v))
  \/ \E w \in {SizeofUInt, SizeofULongLong}: \E v \in Unsigned(w):
       Apply("libfault_append_hex_ul", [value |-> v, sizeof |-> w],
             libfault_append_hex_ul(v, w))

\* Signal numbers the formatters are given: the handled ones and others.
SignoSamples == {1, 4, 5, 6, 7, 8, 10, 11, 13, 15, 31, 64}

CallAppendSigno ==
  \E n \in SignoSamples:
    Apply("libfault_append_signo", [sig |-> n], libfault_append_signo(n))

\* Values of the fields of siginfo_t, and the pointer sizes of the targets.
SiCodeSamples == {-60, -7, -6, -5, -4, -3, -2, -1, 0, 1, 2, 3, 4, 128}
PidSamples == {1, 4242}
UidSamples == {0, 1000}
AddrSamples == {<<0, 0>>, <<16, 0>>, <<48879, 57005>>}
SiginfoSamples ==
  [si_signo : {4, 6, 7, 8, 10, 11}, si_code : SiCodeSamples,
   si_pid : PidSamples, si_uid : UidSamples, si_addr : AddrSamples]

\* The address as a pointer of w bytes.
AsPointer(addr, w) == [i \in 1..(w \div 2) |-> IF i <= 2 THEN addr[i] ELSE 0]

CallAppendSigreason ==
  \E info \in SiginfoSamples, w \in {SizeofUInt, SizeofULongLong}:
    LET i == [info EXCEPT !.si_addr = AsPointer(@, w)]
    IN Apply("libfault_append_sigreason", [info |-> i, sizeofPtr |-> w],
             libfault_append_sigreason(i, w))

\* Timestamps: time() at handler entry.
TimeSamples == {0, 9, 10, 1700000000, 2147483647}

\* The header of an entry for the signal the kernel reports in info.
CallHeaderLine ==
  \E info \in SiginfoSamples, w \in {SizeofUInt, SizeofULongLong},
     pid \in PidSamples, t \in {1700000000}:
    LET i == [info EXCEPT !.si_addr = AsPointer(@, w)]
    IN /\ info.si_uid = 0
       /\ \E name \in DOMAIN SigNum: SigNum[name] = info.si_signo
       /\ Apply("HeaderLine",
                [pid |-> pid, t |-> t, sig |-> i.si_signo, info |-> i,
                 sizeofPtr |-> w],
                HeaderLine(pid, t, i.si_signo, i, w))

\* libfault_set_log_name was called with a path, or not at all.
LogNameSamples == {NULL, Ptr("/tmp/test-"), Ptr("crash.")}

CallCrashLogPath ==
  \E name \in LogNameSamples, t \in TimeSamples:
    Apply("CrashLogPath", [log_name |-> name, t |-> t],
          CrashLogPath(LogBase(name), t))

\* Values of an environment variable: unset, empty, the spellings of the
\* four words, and other texts.
TruthySpellings ==
  {"YES", "YEs", "YeS", "Yes", "yES", "yEs", "yeS", "yes", "Y", "y", "ON",
   "On", "oN", "on", "TRUE", "TRUe", "TRuE", "TRue", "TrUE", "TrUe", "TruE",
   "True", "tRUE", "tRUe", "tRuE", "tRue", "trUE", "trUe", "truE", "true"}
EnvSamples ==
  {NULL, Ptr("")} \cup {Ptr(w) : w \in TruthySpellings}
  \cup {Ptr(w) : w \in {"no", "off", "false", "0", "1", "yess", "enabled"}}

CallEnvEnabled ==
  \E v \in EnvSamples, def \in BOOLEAN:
    Apply("libfault_env_enabled", [getenv |-> v, def |-> def],
          libfault_env_enabled(v, def))

\* The separator line of the report.
Separator == "--------------------------------------\n"

\* An assertion record that leaves out the function.
AssertionRecord_NoFunction(msg_prefix, info) ==
  IF info.filename # NULL
    THEN Separator \o msg_prefix \o " ] Last assertion failure: ("
         \o info.expression[1] \o "), file " \o info.filename[1] \o ", line "
         \o libfault_append_ull(CastInt(info.line, SizeofULongLong)) \o ".\n"
    ELSE ""

\* libfault_dump_diagnostics, lines 1530-1548: what is written of
\* libfault_last_assert_info.
AssertionRecord(msg_prefix, info) ==
  IF info.filename # NULL
    THEN Separator \o msg_prefix \o " ] Last assertion failure: ("
         \o info.expression[1] \o "), "
         \o (IF info.function # NULL
               THEN "function " \o info.function[1] \o ", " ELSE "")
         \o "file " \o info.filename[1] \o ", line "
         \o libfault_append_ull(CastInt(info.line, SizeofULongLong)) \o ".\n"
    ELSE ""

\* libfault_last_assert_info: zero until __assert_fail (lines 570-573) fills
\* it.
AssertInfoSamples ==
  {[filename |-> NULL, function |-> NULL, expression |-> NULL, line |-> 0]}
  \cup [filename : {Ptr("t.c")}, function : {NULL, Ptr("main")},
        expression : {Ptr("x == 1")}, line : {0, 42, 65536}]

CallAssertionRecord ==
  \E info \in AssertInfoSamples:
    Apply("AssertionRecord", [msg_prefix |-> "[ pid=4242", info |-> info],
          AssertionRecord("[ pid=4242", info))

\* What the operating system answers to the calls of libfault_run_subprocess:
\* errno values the code compares with.
EINTR == 4
EAGAIN == 11

\* pipe() gives 0 or an errno, the fork the pid of the child or -1 and an
\* errno, poll() a count of ready descriptors, 0 on timeout or -1, waitpid
\* the pid of the child with its status, or -1 with EINTR when a signal
\* handler interrupted it (the child is then not reaped).
RunOutcomes ==
  [pipe : {0, 24},
   fork : {[pid |-> 7, errno |-> 0], [pid |-> -1, errno |-> 11]},
   poll : {1, 0, -1},
   waitpid : {[ret |-> 7, status |-> st, errno |-> 0] :
                st \in {ExitOk, ExitOne, KilledStatus}}
             \cup {[ret |-> -1, status |-> 0, errno |-> EINTR]}]

\* The message of lines 865-870 and 885-890.
CouldNotCreate(what, e) ==
  <<"write", "Could not create subprocess: " \o what \o " failed with errno="
             \o libfault_append_ull(CastInt(e, SizeofULongLong)) \o "\n">>

\* Lines 863-872.
PipeFailed(e) == [ret |-> -1, parent |-> <<<<"pipe">>, CouldNotCreate("pipe()", e)>>,
                  child |-> <<>>]

\* A runner that forgets the pipe when the fork fails.
ForkFailed_LeaksPipe(e) ==
  [ret |-> -1,
   parent |-> <<<<"pipe">>, <<"fork">>, CouldNotCreate("fork()", e)>>,
   child |-> <<>>]

\* Lines 881-892.
ForkFailed(e) ==
  [ret |-> -1,
   parent |-> <<<<"pipe">>, <<"fork">>, <<"close", "p[0]">>, <<"close", "p[1]">>,
                CouldNotCreate("fork()", e)>>,
   child |-> <<>>]

\* A parent that keeps the read end of the pipe.
Forked_KeepsReadEnd(callback, timeLimit, os) ==
  [ret |-> IF os.waitpid.ret = os.fork.pid THEN os.waitpid.status ELSE -1,
   parent |-> <<<<"pipe">>, <<"fork">>, <<"close", "p[1]">>,
                <<"poll", "p[0]", timeLimit>>, <<"waitpid", "child">>>>,
   child |-> <<<<"close", "p[0]">>, <<"callback", callback>>, <<"_exit", "0">>>>]

\* Lines 875-880 in the child and 893-914 in the parent.
Forked(callback, timeLimit, os) ==
  [ret |-> IF os.waitpid.ret = os.fork.pid THEN os.waitpid.status ELSE -1,
   parent |-> <<<<"pipe">>, <<"fork">>, <<"close", "p[1]">>,
                <<"poll", "p[0]", timeLimit>>>>
              \o (IF os.poll <= 0
                    THEN <<<<"kill", "child", "SIGKILL">>,
                           <<"write", "Could not run child process: it did "
                                      \o "not exit in time\n">>>>
                    ELSE <<>>)
              \o <<<<"close", "p[0]">>, <<"waitpid", "child">>>>,
   child |-> <<<<"close", "p[0]">>, <<"callback", callback>>, <<"_exit", "0">>>>]

\* libfault_run_subprocess, lines 854-915: the value it returns and the calls
\* made in the calling process and in the child.
libfault_run_subprocess(callback, timeLimit, os) ==
  IF os.pipe # 0 THEN PipeFailed(os.pipe)
  ELSE IF os.fork.pid = -1 THEN ForkFailed(os.fork.errno)
  ELSE Forked(callback, timeLimit, os)

CallRunSubprocess ==
  \E os \in RunOutcomes, u \in {"registers", "lsof"}:
    Apply("libfault_run_subprocess",
          [callback |-> Callback(u), timeLimit |-> TimeLimit(u), os |-> os],
          libfault_run_subprocess(Callback(u), TimeLimit(u), os))

\* state.msg_prefix, lines 1788-1791.
MsgPrefix(pid) ==
  "[ pid=" \o libfault_append_ull(CastInt(pid, SizeofULongLong))

\* state->msg_buffer as memory: a sequence of characters, "\\0" for the
\* terminator.
Nul == "\\0"
Chars(text) == [i \in 1..Len(text) |-> SubSeq(text, i, i)]

\* libfault_append_text from the start of the buffer: the characters behind
\* the text keep their old values.
WriteAt(mem, text) ==
  [i \in 1..(IF Len(mem) > Len(text) THEN Len(mem) ELSE Len(text)) |->
     IF i <= Len(text) THEN SubSeq(text, i, i) ELSE mem[i]]

\* A path that is left without its terminator.
Terminate_Missing(mem, n) == mem

\* *end = '\0' behind n characters.
Terminate(mem, n) ==
  [i \in 1..(IF Len(mem) > n THEN Len(mem) ELSE n + 1) |->
     IF i = n + 1 THEN Nul ELSE mem[i]]

\* The string a char* to the start of the buffer denotes.
RECURSIVE CStringFrom(_, _)
CStringFrom(mem, i) ==
  IF i > Len(mem) \/ mem[i] = Nul THEN "" ELSE mem[i] \o CStringFrom(mem, i + 1)

CString(mem) == CStringFrom(mem, 1)

\* Lines 1317-1321 and 1326-1328: a path composed at the start of the buffer.
StorePath(mem, path) == Terminate(WriteAt(mem, path), Len(path))

\* libfault_dump_fds_with_ls, lines 1271-1294: the child execs ls on the
\* string in msg_buffer; the parent reports a failed fork or a failed ls.
libfault_dump_fds_with_ls(mem, os) ==
  IF os.lsFork = -1
    THEN [out |-> <<"ERROR: Could not fork a process to dump file "
                    \o "descriptor information!\n">>,
          exec |-> <<>>]
    ELSE [out |-> IF os.lsWait.ret # os.lsFork \/ os.lsWait.status # 0
                    THEN <<"ERROR: Could not run 'ls' to dump file "
                           \o "descriptor information!\n">>
                    ELSE <<>>,
          exec |-> <<"ls", "-lv", CString(mem)>>]

\* libfault_dump_fds, lines 1296-1341, for a handler state with prefix
\* msg_prefix and pid state_pid: what the process writes, the result of the
\* lsof run, and the command line of the ls child, if one is started.
libfault_dump_fds(msg_prefix, pid, mem, os) ==
  LET header == msg_prefix \o " ] Open files and file descriptors:\n"
      status == libfault_run_subprocess(Callback("lsof"), TimeLimit("lsof"),
                                        os.run).ret
      proc == StorePath(WriteAt(mem, header),
                        "/proc/"
                        \o libfault_append_ull(CastInt(pid, SizeofULongLong))
                        \o "/fd")
      dev == StorePath(proc, "/dev/fd")
      ls == IF os.procFd THEN libfault_dump_fds_with_ls(proc, os)
            ELSE libfault_dump_fds_with_ls(dev, os)
  IN [status |-> status,
      out |-> <<header>>
              \o (IF status = 0 THEN <<>>
                  ELSE <<"'lsof' not available; falling back to another "
                         \o "mechanism for dumping file descriptors.\n">>
                       \o (IF os.procFd \/ os.devFd THEN ls.out
                           ELSE <<"ERROR: No other file descriptor dumping "
                                  \o "mechanism on current platform "
                                  \o "detected.\n">>)),
      exec |-> IF status # 0 /\ (os.procFd \/ os.devFd) THEN ls.exec
               ELSE <<>>]

\* What msg_buffer holds of an earlier, longer message.
StaleBuffer == Chars("ERROR: Could not run 'cat' to dump memory map information!\n")

\* The outcomes of the lsof run, of the two stat() calls and of the fork and
\* wait of the ls child.
DumpFdsOutcomes ==
  [run : {os \in RunOutcomes : os.poll # -1},
   procFd : BOOLEAN, devFd : BOOLEAN,
   lsFork : {8, -1},
   lsWait : {[ret |-> 8, status |-> ExitOk], [ret |-> 8, status |-> ExitOne]}]

CallDumpFds ==
  \E os \in DumpFdsOutcomes, pid \in PidSamples:
    /\ os.lsFork = -1 => os.lsWait.status = ExitOk
    /\ ~(os.procFd \/ os.devFd) => os.lsFork = 8 /\ os.lsWait.status = ExitOk
    /\ Apply("libfault_dump_fds", [pid |-> pid, os |-> os],
             libfault_dump_fds(MsgPrefix(pid), pid, StaleBuffer, os))

\* A descriptor table: a function from the open descriptors to what they
\* refer to.  pipe() takes the two lowest free descriptors, the read end
\* first.
LowestFree(table) == CHOOSE fd \in 0..(Cardinality(DOMAIN table)):
                       fd \notin DOMAIN table

Open(table, fd, object) ==
  [d \in DOMAIN table \cup {fd} |-> IF d = fd THEN object ELSE table[d]]

Close(table, fd) == [d \in DOMAIN table \ {fd} |-> table[d]]

Dup2(table, old, new) == Open(table, new, table[old])

Pipe(table) ==
  LET r == LowestFree(table)
      w == LowestFree(Open(table, r, "pipe_r"))
  IN [p |-> <<r, w>>,
      table |-> Open(Open(table, r, "pipe_r"), w, "pipe_w")]

\* A loop that leaves the highest descriptor open.
CloseAllFds_SkipsHighest(table, last, highest) ==
  [d \in {fd \in DOMAIN table : fd <= last \/ fd >= highest} |-> table[d]]

\* libfault_close_all_fds, lines 839-848: close(i) for i from the highest
\* descriptor down to last + 1.
CloseAllFds(table, last, highest) ==
  [d \in {fd \in DOMAIN table : fd <= last \/ fd > highest} |-> table[d]]

Highest(table) == CHOOSE fd \in DOMAIN table: \A d \in DOMAIN table: d <= fd

\* libfault_get_highest_fd, lines 625-820: the highest descriptor the scanning
\* child finds, which has the caller's descriptors and its own, or the
\* descriptor limit, below which every descriptor was allocated.
HighestFdResults(table) == {Highest(table), Highest(table) + 3, 1024}

\* Lines 1382-1403: the sanitizer child up to the exec of the shell.
SanitizerChild(table, p, highest) ==
  CloseAllFds(Dup2(Close(table, p[2]), p[1], 0), 2, highest)

\* A parent that looks only at the result of waitpid.
SanitizerFailed_IgnoresStatus(os) == os.waitpid.ret = -1

\* Line 1438: waitpid(pid, &status, 0) == -1 || status != 0, where status
\* is -1 until waitpid stores one.
SanitizerFailed(os) == os.waitpid.ret = -1 \/ os.waitpid.status # 0

\* libfault_dump_backtrace, lines 1350-1453, below the "Backtrace with"
\* line: where backtrace_symbols_fd writes the frames, in order, what is
\* written besides, and the descriptors of the sanitizer child at its exec.
libfault_dump_backtrace(cmd, table, os) ==
  LET piped == Pipe(table)
      errno(e) == libfault_append_ull(CastInt(e, SizeofULongLong))
      falling(what, e) ==
        "Could not dump diagnostics through backtrace sanitizer: " \o what
        \o " failed with errno=" \o errno(e) \o "\n"
        \o "Falling back to writing to stderr directly...\n"
  IN IF cmd = NULL
       THEN [frames |-> <<"stderr">>, out |-> <<>>, child |-> NULL]
     ELSE IF os.pipe # 0
       THEN [frames |-> <<"stderr">>, out |-> <<falling("pipe()", os.pipe)>>,
             child |-> NULL]
     ELSE IF os.fork.pid = -1
       THEN [frames |-> <<"stderr">>,
             out |-> <<falling("fork()", os.fork.errno)>>, child |-> NULL]
     ELSE [frames |-> IF SanitizerFailed(os) THEN <<"p[1]", "stderr">>
                      ELSE <<"p[1]">>,
           out |-> IF SanitizerFailed(os)
                     THEN <<"ERROR: cannot execute '" \o cmd[1]
                            \o "' for sanitizing the backtrace, writing to "
                            \o "stderr directly...\n">>
                     ELSE <<>>,
           child |-> <<[p |-> piped.p,
                        table |-> SanitizerChild(piped.table, piped.p,
                                                 os.highest)]>>]

\* The descriptors of the process that runs libfault_dump_backtrace: the
\* standard ones, or some of them closed, the write end of the runner's pipe
\* and a file of the application.
TableSamples ==
  {[fd \in D |-> CASE fd = 0 -> "stdin" [] fd = 1 -> "stdout"
                   [] fd = 2 -> "stderr" [] fd = 3 -> "runner_w"
                   [] OTHER -> "file"] :
     D \in {{0, 1, 2}, {0, 1, 2, 3}, {0, 1, 2, 3, 5}, {1, 2, 3}, {2, 3, 6},
            {0, 2, 3, 4}}}

BacktraceOutcomes(table) ==
  [pipe : {0, 24},
   fork : {[pid |-> 7, errno |-> 0], [pid |-> -1, errno |-> 11]},
   waitpid : {[ret |-> 7, status |-> ExitOk], [ret |-> 7, status |-> ExitOne],
              [ret |-> -1, status |-> -1]},
   highest : HighestFdResults(Pipe(table).table)]

CallDumpBacktrace ==
  \E cmd \in {NULL, Ptr("c++filt -n")}, table \in TableSamples:
    \E os \in BacktraceOutcomes(table):
      Apply("libfault_dump_backtrace",
            [cmd |-> cmd, table |-> table, os |-> os],
            libfault_dump_backtrace(cmd, table, os))

\* The signals a process can catch, and SIGSTOP, which it cannot.
CatchableSignals ==
  {"SIGHUP", "SIGINT", "SIGQUIT", "SIGILL", "SIGTRAP", "SIGABRT", "SIGFPE",
   "SIGBUS", "SIGSEGV", "SIGSYS", "SIGPIPE", "SIGALRM", "SIGTERM", "SIGURG",
   "SIGTSTP", "SIGCONT", "SIGCHLD", "SIGUSR1", "SIGUSR2", "SIGXCPU",
   "SIGXFSZ", "SIGVTALRM", "SIGPROF", "SIGWINCH", "SIGTTIN", "SIGTTOU",
   "SIGIO"}

\* Lines 1675-1700: the signals sigaction is called for.  SIGEMT and SIGINFO
\* are compiled in only where they exist.
ResetSignals ==
  {"SIGHUP", "SIGINT", "SIGQUIT", "SIGILL", "SIGTRAP", "SIGABRT", "SIGFPE",
   "SIGBUS", "SIGSEGV", "SIGSYS", "SIGPIPE", "SIGALRM", "SIGTERM", "SIGURG",
   "SIGSTOP", "SIGTSTP", "SIGCONT", "SIGCHLD", "SIGUSR1", "SIGUSR2"}

\* Lines 1711-1714: sigprocmask(SIG_SETMASK, the empty set), again while it
\* returns -1 with EINTR.
SetMask(mask, interrupted) == [mask |-> {}, calls |-> interrupted + 1]

\* libfault_reset_signal_handlers_and_mask, lines 1668-1715, over all the
\* catchable signals: sigaction(SIG_DFL) for the listed signals (it fails for
\* SIGSTOP), then the mask.
ResetSignalHandlersAndMask(dispositions, mask, interrupted) ==
  LET set == SetMask(mask, interrupted)
  IN [sigact |-> [sig \in DOMAIN dispositions |->
                    IF sig \in ResetSignals THEN "default"
                    ELSE dispositions[sig]],
      mask |-> set.mask,
      sigprocmask |-> set.calls]

\* The times sigprocmask is interrupted before it succeeds.
InterruptedSamples == {0, 1, 2}

\* The dispositions of the caller: one signal with a handler or ignored, or
\* the handled signals with the handler, the others default.
DispositionSamples ==
  {[sig \in CatchableSignals |-> IF sig \in H THEN d ELSE "default"] :
     H \in {{sig} : sig \in CatchableSignals}
           \cup {{"SIGABRT", "SIGSEGV", "SIGBUS", "SIGFPE", "SIGILL"}},
     d \in {"handler", "ignore"}}

CallResetSignalHandlersAndMask ==
  \E dispositions \in DispositionSamples,
     mask \in {{}, {"SIGUSR1", "SIGXCPU"}}, interrupted \in InterruptedSamples:
    Apply("libfault_reset_signal_handlers_and_mask",
          [dispositions |-> dispositions, mask |-> mask,
           interrupted |-> interrupted],
          ResetSignalHandlersAndMask(dispositions, mask, interrupted))

\* Signed reading of a two's complement value given by its digits: the
\* comparisons of lines 602-613 are made on long long and long values.
Negative(v) == v[Len(v)] >= LimbBase \div 2

RECURSIVE BelowFrom(_, _, _)
BelowFrom(a, b, i) ==
  IF i = 0 THEN FALSE
  ELSE IF a[i] # b[i] THEN a[i] < b[i]
  ELSE BelowFrom(a, b, i - 1)

\* a < b for signed values of the same width.
Less(a, b) ==
  IF Negative(a) # Negative(b) THEN Negative(a) ELSE BelowFrom(a, b, Len(a))

\* The conversion of a value to a signed type of w bytes, read as an integer
\* (w <= 4), and the widening of it back to w bytes.
Narrow(v, w) == SubSeq(v, 1, w \div 2)

Widen(v, w) ==
  [i \in 1..(w \div 2) |->
     IF i <= Len(v) THEN v[i]
     ELSE IF Negative(v) THEN LimbBase - 1 ELSE 0]

AsInt(v) ==
  LET n == Narrow(v, SizeofUInt)
  IN IF Negative(n)
       THEN -((LimbBase - 1 - n[2]) * LimbBase + (LimbBase - 1 - n[1])) - 1
       ELSE n[2] * LimbBase + n[1]

INT_MAX == CastInt(2147483647, SizeofULongLong)
LLONG_MAX == <<65535, 65535, 65535, 32767>>
RLIM_INFINITY == <<65535, 65535, 65535, 65535>>

\* Lines 609-617: 9999 when the result is negative, 2 when it is below 2,
\* and the return of the long as an int.
Clamp(res) ==
  IF Negative(res) THEN 9999
  ELSE IF Less(res, CastInt(2, 2 * Len(res))) THEN 2
  ELSE AsInt(res)

\* libfault_get_fd_limit, lines 585-618.  sysconfResult is the long that
\* sysconf returns, as a long long; rl is what getrlimit returns and the
\* rlim_max it stores; sizeofLong is the size of long on the target.
libfault_get_fd_limit(sysconfResult, rl, sizeofLong) ==
  LET rlimitResult == IF rl.ret = -1 THEN CastInt(0, SizeofULongLong)
                      ELSE rl.rlim_max
      chosen == IF \/ ~Less(rlimitResult, INT_MAX)
                   \/ Less(rlimitResult, sysconfResult)
                  THEN sysconfResult
                  ELSE rlimitResult
  IN Clamp(Narrow(chosen, sizeofLong))

\* What sysconf(_SC_OPEN_MAX) returns, for a long of w bytes.
SysconfSamples(w) ==
  {Widen(CastInt(n, w), SizeofULongLong) :
     n \in {-1, 0, 1, 256, 1024, 9999, 10000, 1048576, 2147483647}}
  \cup (IF w = SizeofULongLong THEN {LLONG_MAX} ELSE {})

\* What getrlimit(RLIMIT_NOFILE) returns and stores.
RlimitSamples ==
  [ret : {0, -1},
   rlim_max : {CastInt(n, SizeofULongLong) :
                 n \in {0, 1, 1024, 4096, 1048576, 2147483647}}
              \cup {LLONG_MAX, RLIM_INFINITY}]

CallGetFdLimit ==
  \E w \in {SizeofUInt, SizeofULongLong}:
    \E sysconfResult \in SysconfSamples(w), rl \in RlimitSamples:
      Apply("libfault_get_fd_limit",
            [sysconf |-> sysconfResult, rl |-> rl, sizeofLong |-> w],
            libfault_get_fd_limit(sysconfResult, rl, w))

\* A cleanup that kills the child only when no result was read.
Done_KillsOnFailureOnly(p, pid, res) ==
  (IF p[1] # -1 THEN <<"close(p[0])">> ELSE <<>>)
  \o (IF p[2] # -1 THEN <<"close(p[1])">> ELSE <<>>)
  \o (IF pid # -1 /\ res = -1 THEN <<"kill(pid, SIGKILL)", "waitpid(pid)">>
      ELSE <<>>)

\* Lines 798-813, the label done: the calls made there for the pipe p, the
\* child pid and the result read so far.
Done(p, pid, res) ==
  (IF p[1] # -1 THEN <<"close(p[0])">> ELSE <<>>)
  \o (IF p[2] # -1 THEN <<"close(p[1])">> ELSE <<>>)
  \o (IF pid # -1 THEN <<"kill(pid, SIGKILL)", "waitpid(pid)">> ELSE <<>>)

\* Line 780: while (ret == -1 && ret == EINTR), the condition on which the
\* read is made again without a poll.
ReadRetries(rd) == rd.ret = -1 /\ rd.ret = EINTR

\* Lines 768-795: the loop of the parent over what poll and read return, in
\* order.  It gives the calls made, whether sizeof(int) bytes were read, and
\* the events it did not use; an event is [poll, read], read being the
\* return value and errno of read.
RECURSIVE ReadLoop(_, _)
ReadLoop(events, bytesRead) ==
  IF events = <<>> THEN [calls |-> <<>>, read |-> FALSE, left |-> <<"more">>]
  ELSE LET ev == Head(events)
           rd == ev.read
           rest == ReadLoop(Tail(events), bytesRead)
           more(n) == ReadLoop(Tail(events), n)
       IN IF ev.poll <= 0
            THEN [calls |-> <<"poll">>, read |-> FALSE, left |-> Tail(events)]
          ELSE IF ReadRetries(rd)
            THEN [calls |-> <<"poll", "read">> \o Tail(rest.calls),
                  read |-> rest.read, left |-> rest.left]
          ELSE IF rd.ret = -1 /\ rd.errno # EAGAIN
            THEN [calls |-> <<"poll", "read">>, read |-> FALSE,
                  left |-> Tail(events)]
          ELSE IF rd.ret = -1
            THEN [calls |-> <<"poll", "read">> \o rest.calls,
                  read |-> rest.read, left |-> rest.left]
          ELSE IF rd.ret = 0
            THEN [calls |-> <<"poll", "read">>, read |-> FALSE,
                  left |-> Tail(events)]
          ELSE IF bytesRead + rd.ret < SizeofUInt
            THEN [calls |-> <<"poll", "read">> \o more(bytesRead + rd.ret).calls,
                  read |-> more(bytesRead + rd.ret).read,
                  left |-> more(bytesRead + rd.ret).left]
          ELSE [calls |-> <<"poll", "read">>, read |-> TRUE,
                left |-> Tail(events)]

\* libfault_get_highest_fd, lines 640-818, the path without F_MAXFD.  os
\* gives what pipe, fcntl(F_GETFL) and fork return, the events of the
\* parent's loop, the number the child wrote and the descriptor limit.
libfault_get_highest_fd(os) ==
  LET loop == ReadLoop(os.events, 0)
      outcome ==
        IF os.pipe = -1
          THEN [calls |-> <<"pipe">>, p |-> <<-1, -1>>, pid |-> -1, res |-> -1]
        ELSE IF os.getfl = -1
          THEN [calls |-> <<"pipe", "fcntl">>, p |-> <<3, 4>>, pid |-> -1,
                res |-> -1]
        ELSE IF os.fork = -1
          THEN [calls |-> <<"pipe", "fcntl", "fcntl", "fork">>,
                p |-> <<3, 4>>, pid |-> -1, res |-> -1]
        ELSE [calls |-> <<"pipe", "fcntl", "fcntl", "fork", "close(p[1])">>
                        \o loop.calls,
              p |-> <<3, -1>>, pid |-> os.fork,
              res |-> IF loop.read THEN os.highest ELSE -1]
  IN [calls |-> outcome.calls \o Done(outcome.p, outcome.pid, outcome.res),
      ret |-> IF outcome.res = -1 THEN os.limit ELSE outcome.res]

\* What poll and read give in one round of the loop.
ReadEvents ==
  [poll : {1}, read : {[ret |-> 4, errno |-> 0], [ret |-> 2, errno |-> 0],
                       [ret |-> 0, errno |-> 0], [ret |-> -1, errno |-> EINTR],
                       [ret |-> -1, errno |-> EAGAIN],
                       [ret |-> -1, errno |-> 5]}]
  \cup [poll : {0, -1}, read : {[ret |-> 0, errno |-> 0]}]

\* The sequences of at most three events that the loop uses up.
EventSequences ==
  {ev \in UNION {[1..n -> ReadEvents] : n \in 1..3} :
     ReadLoop(ev, 0).left = <<>>}

HighestFdOutcomes ==
  [pipe : {0}, getfl : {0}, fork : {7}, events : EventSequences,
   highest : {6}, limit : {1024}]
  \cup [pipe : {0, -1}, getfl : {0, -1}, fork : {7, -1}, events : {<<>>},
        highest : {6}, limit : {1024}]

CallGetHighestFd ==
  \E os \in HighestFdOutcomes:
    /\ os.events = <<>> => os.pipe = -1 \/ os.getfl = -1 \/ os.fork = -1
    /\ Apply("libfault_get_highest_fd", os, libfault_get_highest_fd(os))

\* The sizes of state.msg_prefix (line 171) and of crashLogFile (line 1727).
MsgPrefixSize == 32
CrashLogFileSize == 256

\* The bytes libfault_append_text and the '\0' behind it write for a text.
BytesWritten(text) == Len(text) + 1

RECURSIVE Repeat(_, _)
Repeat(text, n) ==
  IF n = 0 THEN ""
  ELSE LET half == Repeat(text, n \div 2)
       IN half \o half \o (IF n % 2 = 1 THEN text ELSE "")

\* Names given to libfault_set_log_name, which stores any pointer (line
\* 2064): unset, short ones, and names of 245 and 246 characters.
LongLogNameSamples ==
  LogNameSamples
  \cup {Ptr("/tmp/" \o Repeat("d", 240)), Ptr("/tmp/" \o Repeat("d", 241))}

\* Lines 1613-1616 and 1788-1791: the bytes written into crashLogFile and
\* into state.msg_prefix.
CallCompose ==
  \E pid \in {1, 4242, 4194304, 2147483647}, name \in LongLogNameSamples,
     t \in TimeSamples \cup {-1}:
    Apply("compose", [pid |-> pid, log_name |-> name, t |-> t],
          [msg_prefix |-> BytesWritten(MsgPrefix(pid)),
           crashLogFile |-> BytesWritten(CrashLogPath(LogBase(name), t))])

\* No function was applied yet: one is applied in each behaviour.
Idle == call = NoCall

PureNext ==
  \/ Idle /\ CallEmergencyPipeClose
  \/ Idle /\ CallAppendHex
  \/ Idle /\ CallAppendSigno
  \/ Idle /\ CallAppendSigreason
  \/ Idle /\ CallHeaderLine
  \/ Idle /\ CallCrashLogPath
  \/ Idle /\ CallEnvEnabled
  \/ Idle /\ CallAssertionRecord
  \/ Idle /\ CallRunSubprocess
  \/ Idle /\ CallDumpFds
  \/ Idle /\ CallDumpBacktrace
  \/ Idle /\ CallResetSignalHandlersAndMask
  \/ Idle /\ CallGetFdLimit
  \/ Idle /\ CallGetHighestFd
  \/ Idle /\ CallCompose

PureSpec == PureInit /\ [][PureNext]_vars

(***************************************************************************)
(* The user-facing API: libfault_init, the setters, libfault_install_      *)
(* handlers, called by the application before any crash.                   *)
(***************************************************************************)
\* The statics as the C initializers at lines 197-223 leave them.
ApiInit ==
  /\ InitProcesses
  /\ libfault_main_ctx = ZeroCtx
  /\ libfault_app_name = NULL
  /\ libfault_app_version = NULL
  /\ libfault_bugreport_url = NULL
  /\ libfault_log_base = NULL
  /\ libfault_custom_diagnostics_dumper = NULL
  /\ libfault_custom_diagnostics_dumper_data = NULL
  /\ libfault_beep_on_abort = FALSE
  /\ libfault_stop_on_abort = FALSE
  /\ altstack = FALSE
  /\ assert_filename_set = FALSE
  /\ sigact = [p \in Procs |-> AllDefault]

\* What every API call leaves alone.
apiFrame == <<libfault_abort_handler_called, assert_filename_set,
              emergencyPipe1, emergencyPipe2, sigmask, ppc, pstat, pexit,
              signo, state_pid, nentries, crashLogFile, stderrToTee, plog,
              nlog, noticeSigno, cpc, gpc, sub, secLog, lastFailure,
              contSentTo, invoked, pcalls>>

\* The application is running its own code: it has neither crashed nor
\* aborted.
InApplication == ppc = "app" /\ call.op \notin {"crash", "abort"}

\* libfault_init, lines 2002-2015.
libfault_init ==
  /\ InApplication
  /\ libfault_main_ctx' = ZeroCtx
  /\ call' = [op |-> "libfault_init"]
  /\ UNCHANGED <<apiFrame, installedVars, altstack, sigact, result>>

\* A setter that writes through to the installed log base.
Set_WritesInstalled(op, field, value) ==
  /\ InApplication
  /\ libfault_main_ctx' = [libfault_main_ctx EXCEPT ![field] = value]
  /\ call' = [op |-> op]
  /\ libfault_log_base' = IF field = "log_name" /\ value # NULL THEN value
                          ELSE libfault_log_base
  /\ UNCHANGED <<apiFrame, libfault_app_name, libfault_app_version,
                 libfault_bugreport_url, libfault_custom_diagnostics_dumper,
                 libfault_custom_diagnostics_dumper_data,
                 libfault_beep_on_abort, libfault_stop_on_abort, altstack,
                 sigact, result>>

\* A setter, lines 2027-2117: one assignment to a field of libfault_main_ctx.
Set(op, field, value) ==
  /\ InApplication
  /\ libfault_main_ctx' = [libfault_main_ctx EXCEPT ![field] = value]
  /\ call' = [op |-> op]
  /\ UNCHANGED <<apiFrame, installedVars, altstack, sigact, result>>

libfault_set_app_name ==
  \E name \in {NULL, Ptr("app")}: Set("libfault_set_app_name", "app_name", name)

libfault_set_app_version ==
  \E version \in {NULL, Ptr("1.0")}:
    Set("libfault_set_app_version", "app_version", version)

libfault_set_log_name ==
  \E path \in {NULL, Ptr("/tmp/test-")}:
    Set("libfault_set_log_name", "log_name", path)

libfault_set_bugreport_url ==
  \E url \in {NULL, Ptr("http://bugs")}:
    Set("libfault_set_bugreport_url", "bugreport_url", url)

libfault_set_custom_diagnostics ==
  \E callback \in {NULL, Ptr("diagnostics")}:
    Set("libfault_set_custom_diagnostics", "diagnostics", callback)

libfault_set_custom_diagnostics_data ==
  \E data \in {NULL, Ptr("data")}:
    Set("libfault_set_custom_diagnostics_data", "diagnostics_data", data)

\* The environment install_handlers reads: each variable unset (NULL) or set.
EnvironSamples ==
  [LIBFAULT_ABORT_HANDLER : {NULL, Ptr(""), Ptr("yes"), Ptr("no")},
   LIBFAULT_BEEP_ON_ABORT : {Ptr("on"), Ptr("0")},
   LIBFAULT_STOP_ON_ABORT : {NULL, Ptr("TRUE")}]

\* libfault_install_custom_diagnostics and libfault_install_abort, as they
\* are called at lines 2132-2138 when the handler is enabled.  sigaltstack
\* either installs the stack or fails, and then the process aborts.
InstallAbort(environ, stackInstalled) ==
  /\ libfault_beep_on_abort'
       = libfault_env_enabled(environ.LIBFAULT_BEEP_ON_ABORT, FALSE)
  /\ libfault_stop_on_abort'
       = libfault_env_enabled(environ.LIBFAULT_STOP_ON_ABORT, FALSE)
  /\ libfault_custom_diagnostics_dumper' = libfault_main_ctx.diagnostics
  /\ libfault_custom_diagnostics_dumper_data'
       = libfault_main_ctx.diagnostics_data
  /\ IF stackInstalled
       THEN /\ altstack' = TRUE
            /\ sigact' = [sigact EXCEPT !["P"] = InstalledHandlers]
       ELSE UNCHANGED <<altstack, sigact>>

\* Lines 2146-2151: an installed value is overwritten only by a non-NULL
\* field.
KeepIfNull(field, installed) == IF field # NULL THEN field ELSE installed

\* libfault_install_handlers, lines 2128-2171.
libfault_install_handlers ==
  \E environ \in EnvironSamples, stackInstalled \in BOOLEAN:
    LET enabled == libfault_env_enabled(environ.LIBFAULT_ABORT_HANDLER, TRUE)
        aborts == enabled /\ ~stackInstalled
    IN /\ InApplication
       /\ enabled \/ stackInstalled
       /\ IF enabled THEN InstallAbort(environ, stackInstalled)
          ELSE UNCHANGED <<libfault_beep_on_abort, libfault_stop_on_abort,
                           libfault_custom_diagnostics_dumper,
                           libfault_custom_diagnostics_dumper_data, altstack,
                           sigact>>
       /\ IF aborts
            THEN /\ call' = [op |-> "abort"]
                 /\ UNCHANGED <<libfault_app_name, libfault_app_version,
                                libfault_bugreport_url, libfault_log_base>>
            ELSE /\ call' = [op |-> "libfault_install_handlers",
                             args |-> environ]
                 /\ libfault_app_name'
                      = KeepIfNull(libfault_main_ctx.app_name, libfault_app_name)
                 /\ libfault_app_version'
                      = KeepIfNull(libfault_main_ctx.app_version,
                                   libfault_app_version)
                 /\ libfault_bugreport_url'
                      = KeepIfNull(libfault_main_ctx.bugreport_url,
                                   libfault_bugreport_url)
                 /\ libfault_log_base'
                      = Ptr(LogBase(libfault_main_ctx.log_name))
       /\ UNCHANGED <<apiFrame, libfault_main_ctx, result>>

\* The application and bug-report lines of the handler, lines 1806-1830.
ApplicationLines(msg_prefix) ==
  (IF libfault_app_name # NULL
     THEN msg_prefix \o " ] Application: " \o libfault_app_name[1]
          \o (IF libfault_app_version # NULL
                THEN "; version: " \o libfault_app_version[1] \o "\n"
                ELSE "")
     ELSE "")
  \o (IF libfault_bugreport_url # NULL
        THEN msg_prefix
             \o " ] Oops! You've hit a nasty bug in this application.\n"
             \o msg_prefix \o " ] Please copy this message and send it to\n"
             \o msg_prefix \o " ]    " \o libfault_bugreport_url[1] \o "\n"
        ELSE "")

\* What a crash of the process shows of the installed configuration: the
\* lines above, the base of the crash log path (line 1614) and the call of
\* the custom dumper with its data (lines 1468 and 1571).
CrashReport ==
  [lines |-> ApplicationLines("[ pid=1"),
   log_base |-> libfault_log_base,
   custom |-> IF libfault_custom_diagnostics_dumper # NULL
                THEN <<libfault_custom_diagnostics_dumper[1],
                       libfault_custom_diagnostics_dumper_data>>
                ELSE NULL,
   beep |-> libfault_beep_on_abort,
   stop |-> libfault_stop_on_abort]

\* A handled signal is delivered and the handler reports; it reads the
\* installed configuration and writes none of it.
ApiCrash ==
  /\ InApplication
  /\ \E sig \in HandledSignals: sigact["P"][sig] = "handler"
  /\ call' = [op |-> "crash"]
  /\ result' = CrashReport
  /\ UNCHANGED <<apiFrame, configVars, sigact>>

ApiNext ==
  \/ libfault_init
  \/ libfault_set_app_name
  \/ libfault_set_app_version
  \/ libfault_set_log_name
  \/ libfault_set_bugreport_url
  \/ libfault_set_custom_diagnostics
  \/ libfault_set_custom_diagnostics_data
  \/ libfault_install_handlers
  \/ ApiCrash

ApiSpec == ApiInit /\ [][ApiNext]_vars

(***************************************************************************)
(* Properties                                                              *)
(***************************************************************************)
Range(seq) == {seq[i] : i \in 1..Len(seq)}

IsPrefix(a, b) == Len(a) <= Len(b) /\ \A i \in 1..Len(a): a[i] = b[i]

\* Texts: s starts with, ends with, contains t.
StartsWith(s, t) == Len(t) <= Len(s) /\ SubSeq(s, 1, Len(t)) = t
EndsWith(s, t) ==
  Len(t) <= Len(s) /\ SubSeq(s, Len(s) - Len(t) + 1, Len(s)) = t
Contains(s, t) ==
  \E i \in 1..(Len(s) - Len(t) + 1): SubSeq(s, i, i + Len(t) - 1) = t

\* The decimal numeral of a natural number.
RECURSIVE Dec(_)
Dec(n) ==
  LET d == SubSeq("0123456789", (n % 10) + 1, (n % 10) + 1)
  IN IF n < 10 THEN d ELSE Dec(n \div 10) \o d

\* The n hex digits of the unsigned value v, most significant first.
RECURSIVE HexText(_, _)
HexText(v, n) ==
  IF n = 0 THEN ""
  ELSE LET k == n - 1
           d == (v[(k \div 4) + 1] \div Power(16, k % 4)) % 16
       IN SubSeq("0123456789abcdef", d + 1, d + 1) \o HexText(v, k)

\* C1: from the first fork on (first entry, stop_on_abort off), the faulting
\* process eventually re-raises the signal it received and dies of it,
\* whatever the forks and the diagnostics processes do.
C1_EventuallyReraises ==
  (ppc = "fork_diag") ~> (pexit = <<"signal", signo>>)

\* C2: an entry that finds the counter at 1 writes one notice line naming the
\* received signal and raises that signal again; while the counter is 2 no
\* step of the normal sequence is taken: the emergency pipes, the log file,
\* the tee redirection and the diagnostics child are left as they were.
C2_SecondEntryOnlyNotice ==
  /\ [](libfault_abort_handler_called = 2 =>
          /\ ppc \in {"crashed_once", "crashed_raise", "dead"}
          /\ ppc = "crashed_once" => nlog = <<>>
          /\ ppc = "crashed_raise" =>
               nlog = <<"notice:crashed">> /\ noticeSigno = signo
          /\ "raise" \in Range(nlog) =>
               /\ nlog = <<"notice:crashed", "raise">>
               /\ noticeSigno = signo
               /\ pexit = <<"signal", signo>>
          /\ pexit[1] # "exit")
  /\ [][libfault_abort_handler_called' = 2 => UNCHANGED <<logVars, cpc>>]_vars

\* The handler crashed once at some step of the normal sequence, wrote its
\* notice, raised the signal and the process died of it.
C2_Witness ==
  /\ libfault_abort_handler_called = 2
  /\ "header" \in Range(plog)
  /\ nlog = <<"notice:crashed", "raise">>
  /\ pexit = <<"signal", signo>>

\* C3 as stated: the handler is entered at most three times in one process.
C3_AtMostThreeEntries == nentries <= 3

\* C3: the handler is entered at most once per handled signal, five times at
\* most; the counter counts the entries and never decreases; the normal
\* sequence runs on the first entry only; every entry from the third on writes
\* the terminal notice and calls _exit(1).
C3_EntriesBounded ==
  /\ [](/\ nentries = libfault_abort_handler_called
        /\ nentries <= Cardinality(HandledSignals)
        /\ nentries = Cardinality(sigmask["P"])
        /\ (InHandler /\ libfault_abort_handler_called >= 3) =>
             ppc \in {"crashed_again", "crashed_exit"}
        /\ "_exit" \in Range(nlog) =>
             /\ libfault_abort_handler_called >= 3
             /\ pexit = <<"exit", 1>>)
  /\ [][libfault_abort_handler_called' >= libfault_abort_handler_called]_vars
  /\ [][libfault_abort_handler_called' >= 2 => UNCHANGED <<logVars, cpc>>]_vars

\* A fourth entry: another handled signal arrived before the third entry
\* reached _exit(1).
C3_Witness ==
  /\ nentries = 4
  /\ pexit = <<"exit", 1>>

\* C4: dump_diagnostics, once started, eventually returns, whatever its
\* subordinates do.
C4_DumpReturns ==
  (gpc.unit = "date") ~> (gpc.unit = "return")

C6_LsofBounded ==
  (gpc.unit = "lsof" /\ sub.state = "hung") ~> (gpc.unit \in {"ls", "return"})

\* C7: the sections of the report in their order; a section that is not
\* configured (no assertion recorded, no custom callback) is left out.
C7_Sections ==
  <<"date", "uname", "ulimit", "assert", "registers", "stack", "backtrace",
    "custom", "maps", "fds">>

C7_Configured(x) ==
  /\ x = "assert" => assert_filename_set
  /\ x = "custom" => libfault_custom_diagnostics_dumper # NULL

C7_Expected == SelectSeq(C7_Sections, C7_Configured)

C8_Order ==
  <<"close_emergency_pipes", "create_crashlog", "tee", "header", "optional",
    "beep", "stop_on_abort", "fork_diag", "stop_self", "reraise">>

C8_Kind(ev) ==
  CASE ev \in {"optional:crashlog", "optional:stderr_only"} -> "optional"
    [] ev \in {"tee:ok", "tee:pipe_failed", "tee:fork_failed"} -> "tee"
    [] OTHER -> ev

C8_Rank(ev) == CHOOSE k \in 1..Len(C8_Order): C8_Order[k] = C8_Kind(ev)

C8_Done == {C8_Kind(plog[i]) : i \in 1..Len(plog)}

\* C8: the first entry takes its steps in the fixed order, none twice and no
\* unconditional one skipped; the beep and the SIGSTOP of stop_on_abort happen
\* iff configured; the header comes after the attempts to create the log file
\* and to set up tee, and the log path is announced only with tee set up.
C8_FirstEntryOrder ==
  /\ \A i, j \in 1..Len(plog):
       i < j => C8_Rank(plog[i]) < C8_Rank(plog[j])
  /\ \A ev \in C8_Done:
       \A m \in {"close_emergency_pipes", "create_crashlog", "header",
                 "optional", "fork_diag"}:
         C8_Rank(m) < C8_Rank(ev) => m \in C8_Done
  /\ "beep" \in C8_Done => libfault_beep_on_abort
  /\ "stop_on_abort" \in C8_Done => libfault_stop_on_abort
  /\ (libfault_beep_on_abort /\ "fork_diag" \in C8_Done) => "beep" \in C8_Done
  /\ (libfault_stop_on_abort /\ "fork_diag" \in C8_Done) =>
       "stop_on_abort" \in C8_Done
  /\ stderrToTee => ("tee" \in C8_Done /\ crashLogFile = "path")
  /\ (crashLogFile = "path" /\ "header" \in C8_Done) => stderrToTee
  /\ "optional:crashlog" \in Range(plog) <=>
       (stderrToTee /\ "optional" \in C8_Done)
  /\ "reraise" \in C8_Done => pstat = "dead"

\* A first entry that took all ten steps, with the log file and tee set up.
C8_Witness ==
  /\ Len(plog) = Len(C8_Order)
  /\ stderrToTee
  /\ libfault_abort_handler_called = 1
  /\ pexit = <<"signal", signo>>

\* C9: SIGCONT goes to the pid the handler captured on entry, the faulting
\* process, and only once dump_diagnostics has returned; the intermediate
\* child can exit as soon as it has forked; the grandchild runs with the
\* default dispositions and an empty mask.
C9_GrandchildResumesOrigin ==
  /\ state_pid = getpid("P")
  /\ contSentTo \subseteq {getpid("P")}
  /\ contSentTo # {} =>
       /\ gpc.unit = "return"
       /\ gpc.step \in {"exit", "exited"}
       /\ secLog = C7_Expected
  /\ cpc = "forked" => ENABLED ChildExit
  /\ gpc # NoUnit => (sigact["G"] = AllDefault /\ sigmask["G"] = {})

\* The grandchild resumed the faulting process while the intermediate child
\* was gone, and the process re-raised.
C9_Witness ==
  /\ contSentTo = {getpid("P")}
  /\ cpc = "exited"
  /\ gpc.step = "exit"
  /\ pexit = <<"signal", signo>>

\* C10: a signal the handler was entered for has the default disposition, and
\* a raise of the handler ends the process by that signal without another
\* entry: the counter stays what it was.
C10_ReraiseTerminates ==
  /\ \A s \in sigmask["P"]: sigact["P"][s] = "default"
  /\ InHandler => signo \in sigmask["P"]
  /\ "reraise" \in Range(plog) =>
       /\ libfault_abort_handler_called = 1
       /\ pstat = "dead"
       /\ pexit = <<"signal", signo>>
  /\ "raise" \in Range(nlog) =>
       /\ libfault_abort_handler_called = 2
       /\ pstat = "dead"
       /\ pexit = <<"signal", signo>>

\* The first entry ran to its end and the re-raise ended the process.
C10_Witness ==
  /\ "reraise" \in Range(plog)
  /\ nentries = 1
  /\ pstat = "dead"
  /\ sigact["P"][signo] = "default"

\* C11 as stated: inside the handler the faulting process calls only the
\* primitives of the enumerated set.
C11_SafeSet ==
  {"write", "read", "pipe", "poll", "waitpid", "kill", "raise", "fork",
   "_exit", "sigaction", "sigprocmask", "time", "getpid", "sigaltstack",
   "close"}

C11_OnlyEnumeratedPrimitives == pcalls \subseteq C11_SafeSet

\* C11: inside the handler the faulting process calls only primitives of the
\* enumerated set and, for the crash log, open and dup2: open when it creates
\* the log file, dup2 when the tee child was forked; it never executes a
\* program, which only the tee child does.
C11_HandlerPrimitives ==
  /\ pcalls \subseteq C11_SafeSet \cup {"open", "dup2"}
  /\ "open" \in pcalls <=> "create_crashlog" \in Range(plog)
  /\ "dup2" \in pcalls <=> stderrToTee
  /\ "execlp" \in TeeChildCalls
  /\ InHandler => {"getpid", "time"} \subseteq pcalls

\* The handler created the log file, redirected stderr to tee and forked the
\* diagnostics child.
C11_Witness ==
  /\ {"open", "dup2"} \subseteq pcalls
  /\ "fork_diag" \in Range(plog)

\* C12: as long as the handler has not closed them, the four slots of the
\* emergency pipes hold descriptors.
C12_EmergencyPipesOpen ==
  "close_emergency_pipes" \notin Range(plog) =>
    \A i \in 1..2: emergencyPipe1[i] # -1 /\ emergencyPipe2[i] # -1

\* C13: the close sequence calls close() on the slots that are not -1, each
\* once and in order, and sets all four to -1; run again it calls close() on
\* nothing and leaves the slots at -1.
C13_CloseIdempotent ==
  call.op = "EmergencyPipeClose" =>
    LET open(x) == x # -1
    IN /\ result.first.closed = SelectSeq(call.args, open)
       /\ -1 \notin Range(result.first.closed)
       /\ result.first.pipe1 = <<-1, -1>>
       /\ result.first.pipe2 = <<-1, -1>>
       /\ result.second.closed = <<>>
       /\ result.second.pipe1 = <<-1, -1>>
       /\ result.second.pipe2 = <<-1, -1>>

\* The sequence ran on four open descriptors, and again.
C13_Witness ==
  /\ call.op = "EmergencyPipeClose"
  /\ Len(result.first.closed) = 4
  /\ result.second.closed = <<>>

\* C14: how the attempt to set up tee ended, as far as the handler got.
C14_Tee ==
  CASE "tee:ok" \in Range(plog) -> "ok"
    [] "tee:pipe_failed" \in Range(plog) -> "pipe_failed"
    [] "tee:fork_failed" \in Range(plog) -> "fork_failed"
    [] OTHER -> "none"

\* C14: the log file's name is cleared and stderr stays as it is when the
\* file cannot be opened (tee is not attempted then) and when the pipe or the
\* fork of tee fails; the handler goes on in each case; the "Crash log dumped
\* to" line is written exactly when the file was created and tee was forked,
\* the "stderr only" line otherwise.
C14_CrashLogFailurePolicy ==
  /\ ("header" \in Range(plog) /\ C14_Tee = "none") =>
       (crashLogFile = "" /\ ~stderrToTee /\ "pipe" \notin pcalls)
  /\ C14_Tee \in {"pipe_failed", "fork_failed"} =>
       (crashLogFile = "" /\ ~stderrToTee)
  /\ C14_Tee = "ok" => (crashLogFile = "path" /\ stderrToTee)
  /\ "optional:crashlog" \in Range(plog) => C14_Tee = "ok"
  /\ "optional:stderr_only" \in Range(plog) => C14_Tee # "ok"
  /\ (pstat = "running" /\ InHandler /\ libfault_abort_handler_called = 1) =>
       ENABLED HandlerStep
  /\ "reraise" \in Range(plog) =>
       ("optional:crashlog" \in Range(plog)
        \/ "optional:stderr_only" \in Range(plog))

\* The fork of tee failed after the file was created, and the handler ran to
\* its end with the "stderr only" line.
C14_Witness ==
  /\ C14_Tee = "fork_failed"
  /\ "optional:stderr_only" \in Range(plog)
  /\ "reraise" \in Range(plog)
  /\ nentries = 1

\* C18: the hex digit of bits 4k..4k+3 of an unsigned value.
C18_Nibble(v, k) == (v[(k \div 4) + 1] \div Power(16, k % 4)) % 16

\* C18: each hex formatter writes exactly 2*sizeof(T) characters and
\* advances the cursor by as many; the characters are the hex digits of the
\* value, most significant first, with zeros on the left.
C18_HexWidth ==
  call.op \in {"libfault_append_hex_uint", "libfault_append_hex_ull",
               "libfault_append_hex_ul"} =>
    LET n == 2 * call.args.sizeof
    IN /\ Len(result.buf) = n
       /\ result.advance = n
       /\ \A i \in 1..n:
            result.buf[i] =
              libfault_ascii_chars[C18_Nibble(call.args.value, n - i) + 1]

\* The greatest value of 8 bytes was formatted as sixteen digits f, and so
\* was 0 in other states.
C18_Witness ==
  /\ call.op = "libfault_append_hex_ull"
  /\ IsZero([i \in 1..4 |-> 65535 - call.args.value[i]])
  /\ Text(result.buf) = "ffffffffffffffff"

\* C15: the path of the crash log is the log base, which is the name given
\* to libfault_set_log_name or else "/tmp/exe-crash.libfault.", followed by
\* the decimal timestamp.
C15_CrashLogPath ==
  call.op = "CrashLogPath" =>
    result = (IF call.args.log_name = NULL THEN "/tmp/exe-crash.libfault."
              ELSE call.args.log_name[1]) \o Dec(call.args.t)

\* Base "/tmp/test-" and time 1700000000.
C15_Witness ==
  /\ call.op = "CrashLogPath"
  /\ call.args = [log_name |-> <<"/tmp/test-">>, t |-> 1700000000]
  /\ result = "/tmp/test-1700000000"

\* C16: the parts of a header line: what precedes the reason, and what
\* follows it.
C16_Name(n) ==
  CASE n = 4 -> "SIGILL" [] n = 6 -> "SIGABRT" [] n = 7 -> "SIGBUS"
    [] n = 8 -> "SIGFPE" [] n = 11 -> "SIGSEGV"

C16_Before ==
  "[ pid=" \o Dec(call.args.pid) \o ", timestamp=" \o Dec(call.args.t)
  \o " ] Process aborted! signo=" \o C16_Name(call.args.sig) \o "("
  \o Dec(call.args.sig) \o "), reason="

C16_After ==
  ", si_addr=0x" \o HexText(call.args.info.si_addr, 2 * call.args.sizeofPtr)
  \o "\n"

C16_Between ==
  SubSeq(result, Len(C16_Before) + 1, Len(result) - Len(C16_After))

C16_Sender ==
  ", signal sent by PID " \o Dec(call.args.info.si_pid) \o " with UID "
  \o Dec(call.args.info.si_uid)

C16_IsMnemonic(m) == Len(m) > 0 /\ ~Contains(m, ",") /\ ~Contains(m, " ")

\* C16 as stated: the header is the pid and timestamp, the signal as
\* NAME(N), one reason mnemonic and the address, and nothing else.
C16_HeaderExact ==
  call.op = "HeaderLine" =>
    /\ StartsWith(result, C16_Before)
    /\ EndsWith(result, C16_After)
    /\ C16_IsMnemonic(C16_Between)

\* C16: the header is the pid and timestamp, the signal as NAME(N), one
\* reason mnemonic (the code's name, or # and a number), for a signal code
\* <= 0 the sender's pid and uid, and the address as zero-padded hex of
\* pointer width.
C16_HeaderWithSender ==
  call.op = "HeaderLine" =>
    /\ StartsWith(result, C16_Before)
    /\ EndsWith(result, C16_After)
    /\ IF call.args.info.si_code <= 0
         THEN /\ EndsWith(C16_Between, C16_Sender)
              /\ C16_IsMnemonic(SubSeq(C16_Between, 1,
                                       Len(C16_Between) - Len(C16_Sender)))
         ELSE C16_IsMnemonic(C16_Between)
    /\ (call.args.sig = 11 /\ call.args.info.si_code = 1) =>
         StartsWith(C16_Between, "SEGV_MAPERR")
    /\ call.args.info.si_code = 0 => StartsWith(C16_Between, "SI_USER,")

\* SIGSEGV with SEGV_MAPERR at address 0 on a target with pointers of 8
\* bytes.
C16_Witness ==
  /\ call.op = "HeaderLine"
  /\ result = "[ pid=4242, timestamp=1700000000 ] Process aborted! "
              \o "signo=SIGSEGV(11), reason=SEGV_MAPERR, "
              \o "si_addr=0x0000000000000000\n"

\* C17: libfault_append_sigreason reports the sender's pid and uid exactly
\* when the signal code is <= 0, and its output always ends with the address
\* as ", si_addr=0x" and the hex digits of a pointer.
C17_SenderIffUserCode ==
  call.op = "libfault_append_sigreason" =>
    LET info == call.args.info
        sender == ", signal sent by PID " \o Dec(info.si_pid) \o " with UID "
                  \o Dec(info.si_uid)
        addr == ", si_addr=0x" \o HexText(info.si_addr, 2 * call.args.sizeofPtr)
    IN /\ EndsWith(result, addr)
       /\ Contains(result, ", signal sent by PID ") <=> info.si_code <= 0
       /\ Contains(result, " with UID ") <=> info.si_code <= 0
       /\ info.si_code <= 0 => EndsWith(result, sender \o addr)

\* A SIGBUS sent by process 4242 of user 1000 with kill().
C17_Witness ==
  /\ call.op = "libfault_append_sigreason"
  /\ call.args.info.si_signo = 7
  /\ call.args.sizeofPtr = 8
  /\ result = "SI_USER, signal sent by PID 4242 with UID 1000, "
              \o "si_addr=0x0000000000000000"

\* C19: libfault_append_signo writes NAME(N) for the five handled signals
\* and the decimal number alone for any other.
C19_SignoText ==
  call.op = "libfault_append_signo" =>
    LET n == call.args.sig
    IN result = (IF n \in {4, 6, 7, 8, 11}
                   THEN C16_Name(n) \o "(" \o Dec(n) \o ")"
                   ELSE Dec(n))

\* SIGILL was written with its name.
C19_Witness ==
  /\ call.op = "libfault_append_signo"
  /\ call.args.sig = 4
  /\ result = "SIGILL(4)"

\* C20: libfault_env_enabled returns the default for a variable that is
\* unset or empty, true for every spelling of yes, y, on and true in upper
\* and lower case, false for any other value.
C20_CaseInsensitive ==
  call.op = "libfault_env_enabled" =>
    result = (IF call.args.getenv \in {NULL, <<"">>} THEN call.args.def
              ELSE call.args.getenv[1] \in TruthySpellings)

\* The steps of the API, recognised by the call they record.
IsInstall == call'.op = "libfault_install_handlers"

Setters == {"libfault_set_app_name", "libfault_set_app_version",
            "libfault_set_log_name", "libfault_set_bugreport_url",
            "libfault_set_custom_diagnostics",
            "libfault_set_custom_diagnostics_data"}

C21_Truthy(v) == v # NULL /\ v[1] \in TruthySpellings

C22_InitZeroesConfig ==
  [][(call.op = "libfault_init" /\ IsInstall) =>
       /\ CrashReport'.lines = ""
       /\ CrashReport'.log_base = <<"/tmp/exe-crash.libfault.">>
       /\ CrashReport'.custom = NULL]_vars

\* C23: a setter called after the installation changes nothing of what a
\* crash reports or runs, and the handler changes no configuration value.
C23_FrozenAtInstall ==
  /\ [][call'.op \in Setters =>
          CrashReport' = CrashReport /\ UNCHANGED installedVars]_vars
  /\ [][call'.op = "crash" =>
          result' = CrashReport /\ UNCHANGED configVars]_vars

\* A crash after the application name was set behind an installation that
\* had none: the report has no application line.
C23_Witness ==
  /\ call.op = "crash"
  /\ libfault_main_ctx.app_name = <<"app">>
  /\ libfault_main_ctx.diagnostics = <<"diagnostics">>
  /\ result.lines = ""
  /\ result.custom = NULL

\* The invocations of the custom diagnostics callback so far.
C24_CustomInvocations ==
  SelectSeq(invoked, LAMBDA i: i.callback = "libfault_run_custom_diagnostics")

C24_DumpEnded == gpc.unit = "return"

\* C24 as stated: a registered callback is invoked exactly once in each
\* crash report, an unregistered one never.
C24_InvokedIffRegistered ==
  C24_DumpEnded =>
    Len(C24_CustomInvocations)
      = (IF libfault_custom_diagnostics_dumper # NULL THEN 1 ELSE 0)

\* C24: the custom callback is invoked only when one is installed, at most
\* once, and exactly once when the report reaches its section and pipe() and
\* the fork of libfault_run_subprocess succeed; it runs in a subordinate
\* under the 2000 ms limit with the installed data as argument, after the
\* backtrace section and before the memory map.
C24_CustomDiagnostics ==
  /\ [](/\ Len(C24_CustomInvocations) <= 1
        /\ \A k \in 1..Len(C24_CustomInvocations):
             LET i == C24_CustomInvocations[k]
             IN /\ libfault_custom_diagnostics_dumper # NULL
                /\ i.proc = "sub"
                /\ i.timeLimit = 2000
                /\ i.calls = <<libfault_custom_diagnostics_dumper[1],
                               libfault_custom_diagnostics_dumper_data>>)
  /\ [][(gpc = At("custom") /\ gpc' # gpc) =>
          \/ /\ Len(C24_CustomInvocations') = 1
             /\ gpc' = [unit |-> "custom", step |-> "poll"]
          \/ /\ invoked' = invoked
             /\ lastFailure'.unit = "custom"
             /\ lastFailure'.kind \in {"pipe", "fork"}]_vars
  /\ [][Len(C24_CustomInvocations') > Len(C24_CustomInvocations) =>
          /\ secLog'[Len(secLog')] = "custom"
          /\ secLog'[Len(secLog') - 1] = "backtrace"
          /\ "maps" \notin Range(secLog')
          /\ sub'.state = "running"]_vars

\* The report has ended and the callback ran once, with its data.
C24_Witness ==
  /\ C24_DumpEnded
  /\ libfault_custom_diagnostics_dumper_data = <<"data">>
  /\ Len(C24_CustomInvocations) = 1
  /\ C24_CustomInvocations[1].calls = <<"diagnostics", <<"data">>>>
  /\ "maps" \in Range(secLog)

\* C25: the assertion record is written exactly when the record's filename
\* is set; its line, behind the message prefix, reads "Last assertion
\* failure: (<expression>), file <filename>, line <line>." and has
\* "function <function>, " before "file" when a function is recorded.
C25_AssertionLine ==
  call.op = "AssertionRecord" =>
    LET info == call.args.info
        text == "Last assertion failure: (" \o info.expression[1] \o "), "
                \o (IF info.function # NULL
                      THEN "function " \o info.function[1] \o ", " ELSE "")
                \o "file " \o info.filename[1] \o ", line " \o Dec(info.line)
                \o "."
    IN IF info.filename = NULL THEN result = ""
       ELSE result = "--------------------------------------\n"
                     \o call.args.msg_prefix \o " ] " \o text \o "\n"

\* The record of assert(x == 1) at t.c:42, outside any function.
C25_Witness ==
  /\ call.op = "AssertionRecord"
  /\ call.args.info.function = NULL
  /\ EndsWith(result,
              " ] Last assertion failure: (x == 1), file t.c, line 42.\n")

C26_Writes(trace, text) ==
  \E k \in 1..Len(trace): trace[k][1] = "write" /\ trace[k][2] = text

C26_Calls(trace, name) == \E k \in 1..Len(trace): trace[k][1] = name

C26_Closes(trace, end) ==
  \E k \in 1..Len(trace): trace[k][1] = "close" /\ trace[k][2] = end

\* C26: libfault_run_subprocess reports the errno, forks nothing and returns
\* -1 when pipe() fails; closes both pipe ends, reports the errno and returns
\* -1 when the fork fails; returns the wait status when waitpid returns the
\* child and -1 otherwise; and never runs the callback in the calling
\* process.
C26_RunSubprocessOutcomes ==
  call.op = "libfault_run_subprocess" =>
    LET os == call.args.os
    IN /\ ~C26_Calls(result.parent, "callback")
       /\ os.pipe # 0 =>
            /\ result.ret = -1
            /\ ~C26_Calls(result.parent, "fork")
            /\ result.child = <<>>
            /\ C26_Writes(result.parent,
                 "Could not create subprocess: pipe() failed with errno="
                 \o Dec(os.pipe) \o "\n")
       /\ (os.pipe = 0 /\ os.fork.pid = -1) =>
            /\ result.ret = -1
            /\ C26_Closes(result.parent, "p[0]")
            /\ C26_Closes(result.parent, "p[1]")
            /\ result.child = <<>>
            /\ C26_Writes(result.parent,
                 "Could not create subprocess: fork() failed with errno="
                 \o Dec(os.fork.errno) \o "\n")
       /\ (os.pipe = 0 /\ os.fork.pid > 0) =>
            /\ result.ret = (IF os.waitpid.ret = os.fork.pid
                               THEN os.waitpid.status ELSE -1)
            /\ C26_Calls(result.child, "callback")

\* The fork failed with EAGAIN.
C26_Witness ==
  /\ call.op = "libfault_run_subprocess"
  /\ call.args.os.pipe = 0
  /\ call.args.os.fork.errno = 11
  /\ result.ret = -1
  /\ Len(result.parent) = 5

C27_Fallback ==
  "'lsof' not available; falling back to another mechanism for dumping file "
  \o "descriptors.\n"

C27_NoMechanism ==
  "ERROR: No other file descriptor dumping mechanism on current platform "
  \o "detected.\n"

C27_Count(out, line) == Cardinality({k \in 1..Len(out) : out[k] = line})

\* C27: the fallback is taken exactly when the lsof run returned a non-zero
\* result; ls is started on "/proc/<pid>/fd" when that path exists, else on
\* "/dev/fd" when that exists, with exactly that path as the string in the
\* buffer; and when neither exists one error line is written and ls is not
\* started.
C27_FdListingCascade ==
  call.op = "libfault_dump_fds" =>
    LET os == call.args.os
        failed == \/ os.run.pipe # 0
                  \/ os.run.fork.pid = -1
                  \/ os.run.waitpid.ret # os.run.fork.pid
                  \/ os.run.waitpid.status # 0
    IN /\ C27_Count(result.out, C27_Fallback) = (IF failed THEN 1 ELSE 0)
       /\ ~failed => result.exec = <<>>
       /\ (failed /\ os.procFd /\ os.lsFork # -1) =>
            result.exec = <<"ls", "-lv",
                            "/proc/" \o Dec(call.args.pid) \o "/fd">>
       /\ (failed /\ ~os.procFd /\ os.devFd /\ os.lsFork # -1) =>
            result.exec = <<"ls", "-lv", "/dev/fd">>
       /\ (failed /\ ~os.procFd /\ ~os.devFd) =>
            /\ result.exec = <<>>
            /\ C27_Count(result.out, C27_NoMechanism) = 1
       /\ (os.procFd \/ os.devFd) =>
            C27_Count(result.out, C27_NoMechanism) = 0

\* lsof was killed on its timeout, /proc/4242/fd does not exist and /dev/fd
\* does.
C27_Witness ==
  /\ call.op = "libfault_dump_fds"
  /\ call.args.pid = 4242
  /\ call.args.os.run.poll = 0
  /\ result.status = 9
  /\ ~call.args.os.procFd
  /\ result.exec = <<"ls", "-lv", "/dev/fd">>

C30_ResetsEveryCatchableSignal ==
  call.op = "libfault_reset_signal_handlers_and_mask" =>
    /\ \A sig \in CatchableSignals: result.sigact[sig] = "default"
    /\ result.mask = {}
    /\ result.sigprocmask = call.args.interrupted + 1

\* What the function does: the signals of ResetSignals are default, the
\* others keep their disposition, and the mask is empty after the retries.
C30_ResetsListedSignals ==
  call.op = "libfault_reset_signal_handlers_and_mask" =>
    /\ \A sig \in CatchableSignals:
         result.sigact[sig] = IF sig \in ResetSignals THEN "default"
                              ELSE call.args.dispositions[sig]
    /\ result.mask = {}
    /\ result.sigprocmask = call.args.interrupted + 1

\* A caller that had a handler for SIGXCPU and a blocked signal, with the
\* mask call interrupted twice.
C30_Witness ==
  /\ call.op = "libfault_reset_signal_handlers_and_mask"
  /\ call.args.dispositions["SIGXCPU"] = "handler"
  /\ call.args.mask # {}
  /\ call.args.interrupted = 2
  /\ result.sigact["SIGXCPU"] = "handler"
  /\ result.mask = {}

\* C31: the resource-limit fallback of highest_fd lies in the range
\* [2, 9999] for every pair of values that sysconf(_SC_OPEN_MAX) and
\* getrlimit(RLIMIT_NOFILE) report.
C31_FdLimitRange ==
  call.op = "libfault_get_fd_limit" => result \in 2..9999

\* Both calls report a limit of 1048576 descriptors.
C31_Witness ==
  /\ call.op = "libfault_get_fd_limit"
  /\ call.args.sysconf = CastInt(1048576, 8)
  /\ call.args.rl = [ret |-> 0, rlim_max |-> CastInt(1048576, 8)]
  /\ result = 1048576

Count(seq, x) == Cardinality({k \in 1..Len(seq): seq[k] = x})

Index(seq, x) == CHOOSE k \in 1..Len(seq): seq[k] = x

\* C32: whenever highest_fd forked a scanning child it has sent it SIGKILL
\* and reaped it and has closed both pipe ends before it returns, whatever
\* the loop met; when the fork failed it calls neither kill nor waitpid.
C32_ChildKilledAndReaped ==
  call.op = "libfault_get_highest_fd" =>
    LET calls == result.calls
        forked == call.args.pipe = 0 /\ call.args.getfl = 0
                  /\ call.args.fork # -1
    IN /\ forked =>
            /\ Count(calls, "kill(pid, SIGKILL)") = 1
            /\ Count(calls, "waitpid(pid)") = 1
            /\ Index(calls, "kill(pid, SIGKILL)") < Index(calls, "waitpid(pid)")
            /\ calls[Len(calls)] = "waitpid(pid)"
       /\ ~forked =>
            /\ Count(calls, "kill(pid, SIGKILL)") = 0
            /\ Count(calls, "waitpid(pid)") = 0
       /\ call.args.pipe = 0 =>
            /\ Count(calls, "close(p[0])") = 1
            /\ Count(calls, "close(p[1])") = 1
       /\ call.args.pipe = -1 =>
            /\ Count(calls, "close(p[0])") = 0
            /\ Count(calls, "close(p[1])") = 0

\* The child's number was read in two reads of two bytes.
C32_Witness ==
  /\ call.op = "libfault_get_highest_fd"
  /\ Len(call.args.events) = 2
  /\ result.ret = call.args.highest
  /\ Count(result.calls, "kill(pid, SIGKILL)") = 1

\* C34: a read of the pipe that returns -1 with EINTR is made again and the
\* child's number is not lost; highest_fd uses the fallback only after a
\* real read error, an end-of-file or a poll that gives nothing.
C34_InterruptedReadRetried ==
  call.op = "libfault_get_highest_fd" =>
    LET events == call.args.events
        gaveUp == \E k \in 1..Len(events):
                    \/ events[k].poll <= 0
                    \/ events[k].read.ret = 0
                    \/ /\ events[k].read.ret = -1
                       /\ events[k].read.errno \notin {EINTR, EAGAIN}
    IN (events # <<>> /\ ~gaveUp) => result.ret = call.args.highest

\* A read was interrupted and the fallback was returned.
C34_Witness ==
  /\ call.op = "libfault_get_highest_fd"
  /\ call.args.events = <<[poll |-> 1, read |-> [ret |-> -1, errno |-> EINTR]]>>
  /\ result.ret = call.args.limit

\* The decimal numeral of an integer.
SignedDec(n) == IF n < 0 THEN "-" \o Dec(-n) ELSE Dec(n)

\* The signal code has no mnemonic for the signal.
C35_Unknown(info) ==
  GeneralSiCode(info.si_code) = "" /\ SignalSiCode(info.si_signo, info.si_code) = ""

\* C35: for a signal code without mnemonic append_sigreason emits '#'
\* followed by the decimal value of the code itself, negative codes
\* included.
C35_UnknownCodeValue ==
  (call.op = "libfault_append_sigreason" /\ C35_Unknown(call.args.info)) =>
    \/ StartsWith(result, "#" \o SignedDec(call.args.info.si_code) \o ", ")
    \/ StartsWith(result, "#" \o SignedDec(call.args.info.si_code) \o ",")

\* The code -60 is printed as 2^64 - 60.
C35_Witness ==
  /\ call.op = "libfault_append_sigreason"
  /\ call.args.info.si_code = -60
  /\ StartsWith(result, "#18446744073709551556, signal sent by PID ")

\* C33: in every interleaving the grandchild sends SIGCONT only after the
\* faulting process has stopped itself with SIGSTOP, so that no schedule
\* leaves the process stopped after its SIGCONT was already sent.
C33_ContOnlyAfterStop ==
  [][(getpid("P") \in contSentTo' /\ getpid("P") \notin contSentTo)
       => pstat = "stopped"]_vars

\* The grandchild has sent SIGCONT and exited, and the faulting process
\* stopped itself afterwards.
C33_Witness ==
  /\ getpid("P") \in contSentTo
  /\ gpc = [unit |-> "return", step |-> "exited"]
  /\ pstat = "stopped"
  /\ ppc = After("stop_self")

\* C36: inside the root handler the faulting process calls neither waitpid
\* nor poll nor read (nor select) on any path; what it forks it does not wait
\* for.
C36_NoWaitingInHandler ==
  /\ pcalls \cap {"waitpid", "poll", "read", "select"} = {}
  /\ (stderrToTee \/ "fork_diag" \in Range(plog)) => "fork" \in pcalls

\* The handler redirected stderr to tee, forked the diagnostics child,
\* stopped itself and re-raised the signal.
C36_Witness ==
  /\ stderrToTee
  /\ "fork_diag" \in Range(plog)
  /\ "stop_self" \in Range(plog)
  /\ "reraise" \in Range(plog)
  /\ "fork" \in pcalls

\* C37: every optional line of the handler ends in a newline; with an
\* application name installed the 'Application: <name>' line is terminated
\* by a newline whether or not a version is installed.
C37_ApplicationLineComplete ==
  (call.op = "crash" /\ libfault_app_name # NULL) =>
    /\ StartsWith(result.lines,
                  "[ pid=1 ] Application: " \o libfault_app_name[1]
                  \o (IF libfault_app_version # NULL
                        THEN "; version: " \o libfault_app_version[1]
                        ELSE "")
                  \o "\n")
    /\ EndsWith(result.lines, "\n")

\* A name and a bug-report URL are installed and no version: the first
\* bug-report line follows the name on the same line.
C37_Witness ==
  /\ call.op = "crash"
  /\ libfault_app_version = NULL
  /\ StartsWith(result.lines, "[ pid=1 ] Application: app[ pid=1 ] Oops!")

\* The number of close() calls on a pipe end, and of calls of a name.
C38_Closed(trace, end) ==
  Cardinality({k \in 1..Len(trace):
                 trace[k][1] = "close" /\ trace[k][2] = end})

C38_Called(trace, name) ==
  Cardinality({k \in 1..Len(trace): trace[k][1] = name})

\* On every return path the calling process has closed each end of the pipe
\* it created, once.
C38_PipeClosed ==
  call.op = "libfault_run_subprocess" =>
    \A end \in {"p[0]", "p[1]"}:
      C38_Closed(result.parent, end)
        = IF call.args.os.pipe = 0 THEN 1 ELSE 0

C39_BuffersNotOverrun ==
  call.op = "compose" =>
    /\ result.msg_prefix <= MsgPrefixSize
    /\ result.crashLogFile <= CrashLogFileSize

\* The half that holds: the prefix never takes more than 17 bytes.
C39_PrefixFits ==
  call.op = "compose" => result.msg_prefix <= 17

\* A log name of 246 characters and a timestamp of ten digits: 257 bytes.
C39_Witness ==
  /\ call.op = "compose"
  /\ call.args.log_name # NULL
  /\ Len(call.args.log_name[1]) = 246
  /\ call.args.t = 1700000000
  /\ result.crashLogFile = 257

====
